---- MODULE Spec2Model ----
(***************************************************************************)
(* Command dispatch and execution engine of the rush shell.                *)
(*                                                                         *)
(*   SpecResolve  the command registry as a pure lookup structure:         *)
(*                registries of any shape are built with add_builtin and   *)
(*                queried with resolve.                                    *)
(*   Spec         the shell proper: Dispatcher::default builds the         *)
(*                registry, the top-level loop reads a line, eval          *)
(*                dispatches its sub-commands (builtin, or PATH search,    *)
(*                metadata read, permission check, spawn, drain), and      *)
(*                handle_error reports the result.  The filesystem is an   *)
(*                environment that may lose files between any two steps.   *)
(*                The history is not followed.                             *)
(*   SpecRun      one Executable::run after a successful spawn, thread by  *)
(*                thread; SpecRunLive is the same under fair scheduling.   *)
(*   SpecShell    the shell with lines of one command, all sixteen         *)
(*                builtins acting on working directory, PATH,              *)
(*                configuration and a filesystem with directories, and     *)
(*                the history.                                             *)
(*   SpecEdit     Console::read_line key event by key event: the line      *)
(*                buffer as UTF-8 bytes and the cursor as a byte index.    *)
(*   SpecPath     one Path value under set_path, set_truncation and        *)
(*                disable_truncation.                                      *)
(***************************************************************************)
EXTENDS Integers, Sequences, FiniteSets, TLC

VARIABLES
    commands,     \* Dispatcher.commands: Vec<Builtin>, in registration order
    rname,        \* SpecResolve: the name last passed to resolve
    rfound,       \* SpecResolve: what resolve returned (index into commands, 0 = None)
    pc,           \* position of the main thread
    PATH,         \* shell.env().PATH(): ordered directory list
    show_errors,  \* shell.config().show_errors
    success,      \* shell.success()
    fs,           \* the filesystem: path -> <<>> (absent) or <<mode>>
    line,         \* parser::parse(line): the (name, args) pairs of the line being evaluated
    idx,          \* eval: index of the next pair of the first loop
    results,      \* eval: Vec<Result<(), RushError>>
    cand,         \* dispatch: the Path returned by the PATH search
    child,        \* the spawned process: its output and exit status
    dispatched,   \* the pairs the current eval call has passed to dispatch, in order
    threads,      \* reader threads started by the current dispatch call
    sys,          \* log of what the current dispatch call did, in order
    written,      \* lines shown on the console by the current dispatch call, or by
                  \* handle_error once eval has returned
    evalResult,   \* what eval returned
    proc,         \* the child process as the OS sees it: running or exited
    pipe,         \* per stream: what the child wrote and no reader has read yet
    reader,       \* per stream: the reader thread (reading, or its closure's result)
    rx,           \* per stream: the packets sent on the channel and not yet received
    stdout_done,  \* Executable::run: the three flags of the coordinator loop
    stderr_done,
    process_done,
    joined,       \* the reader threads the coordinator has joined
    runResult,    \* what Executable::run returned
    CWD,          \* shell.env().CWD(): the working directory
    backward,     \* the directories previous-directory goes back to, nearest last
    forward,      \* the directories next-directory goes forward to, nearest last
    truncation_factor,  \* shell.config().truncation_factor: <<>> for None, <<n>> for Some(n)
    history_limit,      \* shell.config().history_limit: <<>> for None, <<n>> for Some(n)
    history,      \* the lines passed to shell.history_add, oldest first
    line_buffer,  \* Console.line_buffer: a String, byte by byte
    cursor_index, \* Console.cursor_index: a byte index into line_buffer
    event,        \* the event handle_event was last given in this read_line call
    handled,      \* how many events the current read_line call has read
    calls,        \* how many times read_line has been called
    lineRead,     \* what read_line returned: <<>> before it returns, <<line>> after
    thePath,      \* a Path: absolute_path, home_directory, shortened_path, truncation_factor
    untruncated,  \* the shortened path the Path had when truncation was last unset
    called        \* the method the Path was last called with, its argument, and for
                  \* disable_truncation the method called before it

vars == <<commands, rname, rfound, pc, PATH, show_errors, success, fs, line, idx,
          results, cand, child, dispatched, threads, sys, written, evalResult,
          proc, pipe, reader, rx, stdout_done, stderr_done, process_done, joined,
          runResult, CWD, backward, forward, truncation_factor, history_limit,
          history, line_buffer, cursor_index, event, handled, calls, lineRead,
          thePath, untruncated, called>>

\* the state of one Executable::run in detail (SpecRun)
runVars == <<proc, pipe, reader, rx, stdout_done, stderr_done, process_done, joined,
             runResult>>

\* the working directory, the configuration and the history (SpecShell)
shellVars == <<CWD, backward, forward, truncation_factor, history_limit, history>>

\* the line editor of the console (SpecEdit)
consoleVars == <<line_buffer, cursor_index, event, handled, calls, lineRead>>

\* one Path value and what was done to it (SpecPath)
pathVars == <<thePath, untruncated, called>>

(***************************************************************************)
(* Bounds                                                                  *)
(***************************************************************************)
MaxCommands == 2      \* SpecResolve: commands in a registry
MaxAliases == 2       \* SpecResolve: aliases of one command
MaxLine == 2          \* Spec: sub-commands in one line

RECURSIVE SeqsUpTo(_, _)
SeqsUpTo(S, n) ==
    IF n = 0 THEN {<<>>}
    ELSE LET shorter == SeqsUpTo(S, n - 1)
         IN  shorter \cup {Append(s, x) : s \in {t \in shorter : Len(t) = n - 1}, x \in S}

(***************************************************************************)
(* Command registry                                                        *)
(***************************************************************************)
Builtin(true_name, aliases) == [true_name |-> true_name, aliases |-> aliases]

\* to_lowercase on the names used here (only used by a faulty variant)
Lower(s) == IF s = "Q" THEN "q" ELSE s

AliasesContainsIgnoreCase(aliases, alias) ==
    \E i \in 1..Len(aliases) : Lower(aliases[i]) = Lower(alias)

\* Aliases::contains: Vec<String>::contains, exact string equality
AliasesContains(aliases, alias) ==
    \E i \in 1..Len(aliases) : aliases[i] = alias

\* faulty variant: true names of all commands first, aliases in a second pass
RECURSIVE resolveTrueNameFrom(_, _, _)
resolveTrueNameFrom(cmds, command_name, i) ==
    IF i > Len(cmds) THEN 0
    ELSE IF cmds[i].true_name = command_name THEN i
    ELSE resolveTrueNameFrom(cmds, command_name, i + 1)

RECURSIVE resolveAliasFrom(_, _, _)
resolveAliasFrom(cmds, command_name, i) ==
    IF i > Len(cmds) THEN 0
    ELSE IF AliasesContains(cmds[i].aliases, command_name) THEN i
    ELSE resolveAliasFrom(cmds, command_name, i + 1)

resolveTwoPass(cmds, command_name) ==
    IF resolveTrueNameFrom(cmds, command_name, 1) # 0
    THEN resolveTrueNameFrom(cmds, command_name, 1)
    ELSE resolveAliasFrom(cmds, command_name, 1)

\* the loop of Dispatcher::resolve from command i on
RECURSIVE resolveFrom(_, _, _)
resolveFrom(cmds, command_name, i) ==
    IF i > Len(cmds) THEN 0
    ELSE IF cmds[i].true_name = command_name THEN i
    ELSE IF AliasesContains(cmds[i].aliases, command_name) THEN i
    ELSE resolveFrom(cmds, command_name, i + 1)

\* Dispatcher::resolve: the index of the command returned, 0 for None
resolve(cmds, command_name) == resolveFrom(cmds, command_name, 1)

\* Dispatcher::add_builtin
add_builtin(true_name, aliases) ==
    commands' = Append(commands, Builtin(true_name, aliases))

\* faulty variant of the table: "md" given to make-file as well
DefaultBuiltinsShadowed ==
    << Builtin("test", <<"t">>),
       Builtin("exit", <<"quit", "q">>),
       Builtin("make-file", <<"create", "touch", "new", "mf", "md">>),
       Builtin("make-directory", <<"mkdir", "md">>) >>

\* the table of Dispatcher::default, in registration order
DefaultBuiltins ==
    << Builtin("test", <<"t">>),
       Builtin("exit", <<"quit", "q">>),
       Builtin("working-directory", <<"pwd", "wd">>),
       Builtin("change-directory", <<"cd">>),
       Builtin("list-directory", <<"directory", "list", "ls", "dir">>),
       Builtin("previous-directory", <<"back", "b", "prev", "pd">>),
       Builtin("next-directory", <<"forward", "f", "next", "nd">>),
       Builtin("clear-terminal", <<"clear", "cls">>),
       Builtin("make-file", <<"create", "touch", "new", "mf">>),
       Builtin("make-directory", <<"mkdir", "md">>),
       Builtin("delete-file", <<"delete", "remove", "rm", "del", "df">>),
       Builtin("read-file", <<"read", "cat", "rf">>),
       Builtin("run-executable", <<"run", "exec", "re">>),
       Builtin("configure", <<"config", "conf">>),
       Builtin("environment-variable", <<"environment", "env", "ev">>),
       Builtin("edit-path", <<"path", "ep">>) >>

(***************************************************************************)
(* SpecResolve: registries of any shape                                    *)
(***************************************************************************)
RegNames == {"exit", "q", "Q"}
RegAliases == SeqsUpTo(RegNames, MaxAliases)

\* the shell state, untouched by the registry harness
ShellIdle ==
    /\ PATH = <<>>
    /\ show_errors = TRUE
    /\ success = TRUE
    /\ fs = <<>>
    /\ line = <<>>
    /\ idx = 0
    /\ results = <<>>
    /\ cand = ""
    /\ child = <<>>
    /\ dispatched = <<>>
    /\ threads = 0
    /\ sys = <<>>
    /\ written = <<>>
    /\ evalResult = <<>>

\* no Executable::run is being followed in detail
RunIdle ==
    /\ proc = ""
    /\ pipe = <<>>
    /\ reader = <<>>
    /\ rx = <<>>
    /\ stdout_done = FALSE
    /\ stderr_done = FALSE
    /\ process_done = FALSE
    /\ joined = {}
    /\ runResult = <<>>

\* working directory, configuration and history are not followed
EnvIdle ==
    /\ CWD = ""
    /\ backward = <<>>
    /\ forward = <<>>
    /\ truncation_factor = <<>>
    /\ history_limit = <<>>
    /\ history = <<>>

\* no read_line call is followed key by key
ConsoleIdle ==
    /\ line_buffer = <<>>
    /\ cursor_index = 0
    /\ event = <<>>
    /\ handled = 0
    /\ calls = 0
    /\ lineRead = <<>>

\* no Path value is followed
PathIdle ==
    /\ thePath = <<>>
    /\ untruncated = <<>>
    /\ called = <<>>

InitResolve ==
    /\ commands = <<>>
    /\ rname = ""
    /\ rfound = 0
    /\ pc = "registry"
    /\ ShellIdle
    /\ RunIdle
    /\ EnvIdle
    /\ ConsoleIdle
    /\ PathIdle

RegAdd ==
    /\ pc = "registry"
    /\ Len(commands) < MaxCommands
    /\ \E true_name \in RegNames, aliases \in RegAliases : add_builtin(true_name, aliases)
    /\ rname' = ""
    /\ rfound' = 0
    /\ UNCHANGED <<pc, PATH, show_errors, success, fs, line, idx, results, cand,
                   child, dispatched, threads, sys, written, evalResult>>
    /\ UNCHANGED runVars
    /\ UNCHANGED consoleVars
    /\ UNCHANGED pathVars
    /\ UNCHANGED shellVars

RegResolve ==
    /\ pc = "registry"
    /\ \E command_name \in RegNames :
          /\ rname' = command_name
          /\ rfound' = resolve(commands, command_name)
    /\ UNCHANGED <<commands, pc, PATH, show_errors, success, fs, line, idx, results,
                   cand, child, dispatched, threads, sys, written, evalResult>>
    /\ UNCHANGED runVars
    /\ UNCHANGED consoleVars
    /\ UNCHANGED pathVars
    /\ UNCHANGED shellVars

NextResolve == RegAdd \/ RegResolve

SpecResolve == InitResolve /\ [][NextResolve]_vars

(***************************************************************************)
(* Errors: eval layer (EvalError) and exec layer (CommandError)            *)
(***************************************************************************)
Ok == [ok |-> TRUE]

\* DispatchError
UnknownCommand(name) ==
    [category |-> "Dispatch", variant |-> "UnknownCommand", name |-> name]
NotAnExecutable(permission_code) ==
    [category |-> "Dispatch", variant |-> "NotAnExecutable", bits |-> permission_code]
FailedToReadMetadata(path) ==
    [category |-> "Dispatch", variant |-> "FailedToReadMetadata", path |-> path]

\* ArgumentError, RuntimeError, FilesystemError
InvalidArgumentCount(expected, actual) ==
    [category |-> "Argument", variant |-> "InvalidArgumentCount",
     expected |-> expected, actual |-> actual]
FailedToExecute(code) ==
    [category |-> "Runtime", variant |-> "FailedToExecute", code |-> code]
PathNoLongerExists(path) ==
    [category |-> "Filesystem", variant |-> "PathNoLongerExists", path |-> path]

FailedToRun == [category |-> "Runtime", variant |-> "FailedToRun"]
InvalidArgument(arg) ==
    [category |-> "Argument", variant |-> "InvalidArgument", arg |-> arg]
InvalidValue(value) ==
    [category |-> "Argument", variant |-> "InvalidValue", value |-> value]
FailedToReadDirectory(path) ==
    [category |-> "Filesystem", variant |-> "FailedToReadDirectory", path |-> path]

\* faulty variant: the arguments are stored in reverse order
EvalErrorReversed(kind, command_name, command_args) ==
    [ok |-> FALSE, layer |-> "Eval", kind |-> kind, command_type |-> "",
     command_name |-> command_name,
     command_args |-> [i \in 1..Len(command_args) |->
                          command_args[Len(command_args) + 1 - i]]]

\* EvalError::new
EvalError(kind, command_name, command_args) ==
    [ok |-> FALSE, layer |-> "Eval", kind |-> kind, command_type |-> "",
     command_name |-> command_name, command_args |-> command_args]

\* CommandError::new
CommandError(kind, command_type, command_name, command_args) ==
    [ok |-> FALSE, layer |-> "Exec", kind |-> kind, command_type |-> command_type,
     command_name |-> command_name, command_args |-> command_args]

\* RushError::command_name_if_unknown: <<name>> for Some(name), <<>> for None
command_name_if_unknown(e) ==
    IF e.layer = "Eval" /\ e.kind.variant = "UnknownCommand" THEN <<e.kind.name>> ELSE <<>>

(***************************************************************************)
(* Rendering of errors                                                     *)
(***************************************************************************)
Digit(d) == CASE d = 0 -> "0" [] d = 1 -> "1" [] d = 2 -> "2" [] d = 3 -> "3"
              [] d = 4 -> "4" [] d = 5 -> "5" [] d = 6 -> "6" [] d = 7 -> "7"
              [] d = 8 -> "8" [] d = 9 -> "9"

RECURSIVE IntToString(_)
IntToString(n) == IF n < 10 THEN Digit(n) ELSE IntToString(n \div 10) \o Digit(n % 10)

RECURSIVE JoinArgs(_)
JoinArgs(args) ==
    IF Len(args) = 0 THEN ""
    ELSE IF Len(args) = 1 THEN args[1]
    ELSE args[1] \o " " \o JoinArgs(Tail(args))

\* Display of DispatchError, ArgumentError, RuntimeError, FilesystemError
Message(kind) ==
    CASE kind.variant = "UnknownCommand" ->
            "Command name '" \o kind.name \o "' not found as a builtin or an executable in PATH"
      [] kind.variant = "NotAnExecutable" ->
            "File lacks executable permissions. Current permissions: " \o IntToString(kind.bits)
      [] kind.variant = "FailedToReadMetadata" ->
            "Command metadata for '" \o kind.path \o "' could not be read"
      [] kind.variant = "InvalidArgumentCount" ->
            "Expected " \o IntToString(kind.expected) \o " arguments, got " \o IntToString(kind.actual)
      [] kind.variant = "FailedToExecute" ->
            "Executable failed to run with exit code: " \o IntToString(kind.code)
      [] kind.variant = "PathNoLongerExists" ->
            "Previously-valid path no longer exists: " \o kind.path
      [] kind.variant = "FailedToRun" -> "Failed to run builtin for some reason"
      [] kind.variant = "InvalidArgument" -> "Invalid argument: " \o kind.arg
      [] kind.variant = "InvalidValue" -> "Invalid value: " \o kind.value
      [] kind.variant = "FailedToReadDirectory" -> "Failed to read directory: " \o kind.path
      [] kind.variant = "FailedToParseStdout" ->
            "Failed to parse stdout: " \o kind.msg
      [] kind.variant = "FailedToParseStderr" ->
            "Failed to parse stderr: " \o kind.msg

\* Display of EvalError through error_fmt: every line of the kind and of the
\* context indented by four spaces
DisplayEval(e) ==
    << "[ERROR]:",
       "    [CATEGORY]: " \o e.kind.category,
       "    [MESSAGE]: " \o Message(e.kind),
       "[CONTEXT]:",
       "    [COMMAND]: " \o e.command_name,
       "    [ARGUMENTS]: " \o JoinArgs(e.command_args) >>

\* Display of CommandError: the width of {:4} does not reach the nested
\* write! calls, so nothing is indented; the context ends with the type
DisplayExec(e) ==
    << "[ERROR]:",
       "[CATEGORY]: " \o e.kind.category,
       "[MESSAGE]: " \o Message(e.kind),
       "[CONTEXT]:",
       "[COMMAND]: " \o e.command_name,
       "[ARGUMENTS]: " \o JoinArgs(e.command_args),
       "[TYPE]: " \o e.command_type >>

\* Display of RushError
Display(e) == IF e.layer = "Eval" THEN DisplayEval(e) ELSE DisplayExec(e)

(***************************************************************************)
(* Filesystem and PATH search                                              *)
(***************************************************************************)
\* the any-execute mask 0o111
ExecMask == 73

\* exit code reported when the OS gives none
DefaultExitCode == 126

RECURSIVE BitAnd(_, _)
BitAnd(a, b) ==
    IF a = 0 \/ b = 0 THEN 0
    ELSE (a % 2) * (b % 2) + 2 * BitAnd(a \div 2, b \div 2)

\* PathBuf::push of a file name onto a directory
Join(dir, name) == dir \o "/" \o name

Files == {Join("/usr/bin", "prog"), Join("/bin", "prog"), Join("/usr/bin", "test")}

\* the modes a file may have: regular files 0o100644, 0o100755, and 0o100010
\* (group execute only)
Modes(f) ==
    CASE f = Join("/usr/bin", "prog") -> {33188, 33261}
      [] f = Join("/bin", "prog") -> {33188, 33261, 32776}
      [] f = Join("/usr/bin", "test") -> {33261}

\* the states of the filesystem: every file absent (<<>>) or present with a mode
FsStates == {f \in [Files -> {<<>>} \cup {<<m>> : m \in {33188, 33261, 32776}}] :
                \A p \in Files : f[p] = <<>> \/ f[p][1] \in Modes(p)}

\* Path::exists: the path can be stat'ed
Exists(path) == path \in DOMAIN fs /\ fs[path] # <<>>

\* the file type bits of a mode say directory (S_IFMT 0o170000, S_IFDIR 0o040000)
IsDir(path) == Exists(path) /\ BitAnd(fs[path][1], 61440) = 16384

\* the mode of a directory (0o40755) and of a newly created file (0o100644)
DirMode == 16877
FileMode == 33188

\* a line that is not valid UTF-8
InvalidUtf8 == "<invalid utf-8>"

\* BufReader::lines yields Ok(String) for valid UTF-8 and Err otherwise
Decodes(bytes) == bytes # InvalidUtf8

\* the directories and the file names of the shell's filesystem (SpecShell);
\* EntryNames is in sorted order
Dirs == {"/home", "/usr/bin", "/bin"}
EntryNames == << "new", "notes", "prog", "test" >>

\* the directory a path lies in; "" when that is none of Dirs
Dirname(path) ==
    IF \E d \in Dirs : \E i \in 1..Len(EntryNames) : Join(d, EntryNames[i]) = path
    THEN CHOOSE d \in Dirs : \E i \in 1..Len(EntryNames) : Join(d, EntryNames[i]) = path
    ELSE ""

\* the lines of a file: a text file, programs that are not text, and empty
\* files
Content(path) ==
    CASE path = Join("/home", "notes") -> << "n1", "n2" >>
      [] path \in {Join("/usr/bin", "prog"), Join("/bin", "prog"), Join("/usr/bin", "test")} ->
            << InvalidUtf8 >>
      [] OTHER -> <<>>

\* path::resolve on an absolute path without links: canonicalize succeeds
\* and the path exists; "" for None
resolve_path(path) == IF Exists(path) THEN path ELSE ""

\* faulty variant: the last directory that has the name wins
RECURSIVE resolve_executable_last(_, _, _)
resolve_executable_last(name, path, i) ==
    IF i > Len(path) THEN ""
    ELSE IF resolve_executable_last(name, path, i + 1) # ""
         THEN resolve_executable_last(name, path, i + 1)
    ELSE IF Exists(Join(path[i], name)) THEN Join(path[i], name)
    ELSE ""

resolve_executable_reversed(name, path) == resolve_executable_last(name, path, 1)

\* the loop of resolve_executable from directory i on; "" for None
RECURSIVE resolve_executable_from(_, _, _)
resolve_executable_from(name, path, i) ==
    IF i > Len(path) THEN ""
    ELSE IF Exists(Join(path[i], name)) THEN Join(path[i], name)
    ELSE resolve_executable_from(name, path, i + 1)

\* resolve_executable / Path::from_path_var
resolve_executable(name, path) == resolve_executable_from(name, path, 1)

(***************************************************************************)
(* Builtins                                                                *)
(***************************************************************************)
\* the shell state and the filesystem a builtin has access to
ShellState ==
    [CWD |-> CWD, backward |-> backward, forward |-> forward, PATH |-> PATH,
     show_errors |-> show_errors, truncation_factor |-> truncation_factor,
     history_limit |-> history_limit, fs |-> fs]

\* what running a builtin does: its result, the lines it shows, whether it
\* ends the process, whether it panics, the path it hands to Executable::run
\* ("" for none), and the shell state and filesystem it leaves
Outcome(result, out, exits) ==
    [result |-> result, out |-> out, exits |-> exits, panics |-> FALSE, exec |-> "",
     after |-> ShellState]

\* faulty variant: the context has the command type of an external program
exec_error_executable(kind, builtin_name, args) ==
    CommandError(kind, "Executable", builtin_name, args)

\* exec_error! inside a builtin: the context names the builtin function
exec_error(kind, builtin_name, args) == CommandError(kind, "Builtin", builtin_name, args)

\* faulty variant: only too few arguments are refused
check_args_fails_low(args, expected) == Len(args) < expected

\* check_args!: the usage line and InvalidArgumentCount when the count is wrong
check_args_fails(args, expected) == Len(args) # expected

check_args_outcome(builtin_name, args, expected, usage) ==
    Outcome(exec_error(InvalidArgumentCount(expected, Len(args)), builtin_name, args),
            << "Usage: " \o builtin_name \o " " \o usage >>,
            FALSE)

\* showln! of one line followed by exec_error!
Fails(kind, builtin_name, args, shown) ==
    Outcome(exec_error(kind, builtin_name, args), << shown >>, FALSE)

\* Ok(()) with the shell state or the filesystem changed
OkWith(after) == [Outcome(Ok, <<>>, FALSE) EXCEPT !.after = after]

\* a panic after the lines shown so far
Panic(out) == [Outcome(Ok, out, FALSE) EXCEPT !.panics = TRUE]

builtins_test(args) ==
    IF check_args_fails(args, 0) THEN check_args_outcome("test", args, 0, "")
    ELSE Outcome(Ok, << "Test command!" >>, FALSE)

\* console.exit(0) ends the process
builtins_exit(args) ==
    IF check_args_fails(args, 0) THEN check_args_outcome("exit", args, 0, "")
    ELSE Outcome(Ok, <<>>, TRUE)

builtins_working_directory(args) ==
    IF check_args_fails(args, 0) THEN check_args_outcome("working-directory", args, 0, "")
    ELSE Outcome(Ok, << CWD >>, FALSE)

\* Environment::set_CWD succeeds on a path that resolves to a directory; the
\* directory left is the nearest one to go back to
set_CWD_ok(path) == IsDir(path)
set_CWD(path) ==
    [ShellState EXCEPT !.CWD = path, !.backward = Append(backward, CWD), !.forward = <<>>]

builtins_change_directory(args) ==
    IF check_args_fails(args, 1)
    THEN check_args_outcome("change-directory", args, 1, "<path>")
    ELSE IF ~set_CWD_ok(args[1])
    THEN Fails(FailedToRun, "change-directory", args, "Invalid path: '" \o args[1] \o "'")
    ELSE OkWith(set_CWD(args[1]))

\* ListDirectoryArguments::parse_from: the path argument, <<>> for None
ListDirectoryArguments_path(args) == IF args = <<>> THEN <<>> ELSE << args[1] >>

\* the names of the entries of a directory that satisfy a test, in sorted order
RECURSIVE EntriesFrom(_, _, _)
EntriesFrom(dir, i, dirs) ==
    IF i > Len(EntryNames) THEN <<>>
    ELSE (IF Exists(Join(dir, EntryNames[i])) /\ IsDir(Join(dir, EntryNames[i])) = dirs
          THEN << IF dirs THEN EntryNames[i] \o "/" ELSE EntryNames[i] >>
          ELSE <<>>)
         \o EntriesFrom(dir, i + 1, dirs)

builtins_list_directory(args) ==
    LET path == ListDirectoryArguments_path(args)
        path_to_read == IF path = <<>> THEN CWD ELSE path[1]
    IN  IF ~IsDir(path_to_read)
        THEN Outcome(exec_error(FailedToReadDirectory(path_to_read), "list-directory", args),
                     <<>>, FALSE)
        ELSE Outcome(Ok, EntriesFrom(path_to_read, 1, TRUE)
                         \o EntriesFrom(path_to_read, 1, FALSE), FALSE)

\* Environment::go_back: to the nearest directory left, if it still is one
go_back_ok == backward # <<>> /\ IsDir(backward[Len(backward)])
go_back ==
    [ShellState EXCEPT !.CWD = backward[Len(backward)],
                       !.backward = SubSeq(backward, 1, Len(backward) - 1),
                       !.forward = Append(forward, CWD)]

builtins_previous_directory(args) ==
    IF check_args_fails(args, 0) THEN check_args_outcome("previous-directory", args, 0, "")
    ELSE IF ~go_back_ok
    THEN Fails(FailedToRun, "previous-directory", args,
               "Previous directory does not exist or is invalid")
    ELSE OkWith(go_back)

\* Environment::go_forward: the inverse of go_back
go_forward_ok == forward # <<>> /\ IsDir(forward[Len(forward)])
go_forward ==
    [ShellState EXCEPT !.CWD = forward[Len(forward)],
                       !.forward = SubSeq(forward, 1, Len(forward) - 1),
                       !.backward = Append(backward, CWD)]

builtins_next_directory(args) ==
    IF check_args_fails(args, 0) THEN check_args_outcome("next-directory", args, 0, "")
    ELSE IF ~go_forward_ok
    THEN Fails(FailedToRun, "next-directory", args,
               "Next directory does not exist or is invalid")
    ELSE OkWith(go_forward)

\* console.clear_output shows nothing
builtins_clear_terminal(args) ==
    IF check_args_fails(args, 0) THEN check_args_outcome("clear-terminal", args, 0, "")
    ELSE Outcome(Ok, <<>>, FALSE)

\* File::create: the directory of the file exists and the path is not a directory
builtins_make_file(args) ==
    IF check_args_fails(args, 1) THEN check_args_outcome("make-file", args, 1, "<path>")
    ELSE IF ~IsDir(Dirname(args[1])) \/ IsDir(args[1])
    THEN Fails(FailedToRun, "make-file", args, "Failed to create file: '" \o args[1] \o "'")
    ELSE OkWith([ShellState EXCEPT !.fs = [fs EXCEPT ![args[1]] =
                     IF Exists(args[1]) THEN fs[args[1]] ELSE << FileMode >>]])

\* create_dir: the path does not exist yet and its directory does
builtins_make_directory(args) ==
    IF check_args_fails(args, 1) THEN check_args_outcome("make-directory", args, 1, "<path>")
    ELSE IF ~IsDir(Dirname(args[1])) \/ Exists(args[1])
    THEN Fails(FailedToRun, "make-directory", args,
               "Failed to create directory: '" \o args[1] \o "'")
    ELSE OkWith([ShellState EXCEPT !.fs = [fs EXCEPT ![args[1]] = << DirMode >>]])

\* remove_file: the path is an existing file, not a directory
builtins_delete_file(args) ==
    IF check_args_fails(args, 1) THEN check_args_outcome("delete-file", args, 1, "<path>")
    ELSE IF ~Exists(args[1]) \/ IsDir(args[1])
    THEN Fails(FailedToRun, "delete-file", args, "Failed to delete file: '" \o args[1] \o "'")
    ELSE OkWith([ShellState EXCEPT !.fs = [fs EXCEPT ![args[1]] = <<>>]])

\* the lines of a file before the first one that does not decode
RECURSIVE DecodablePrefix(_)
DecodablePrefix(lines) ==
    IF lines = <<>> \/ ~Decodes(Head(lines)) THEN <<>>
    ELSE << Head(lines) >> \o DecodablePrefix(Tail(lines))

\* File::open succeeds on any existing path; reading a directory gives an
\* error on the first line, a line that is not UTF-8 gives one where it
\* stands, and line.expect panics on it
builtins_read_file(args) ==
    IF check_args_fails(args, 1) THEN check_args_outcome("read-file", args, 1, "")
    ELSE IF ~Exists(args[1])
    THEN Fails(FailedToRun, "read-file", args, "Failed to open file: '" \o args[1] \o "'")
    ELSE IF IsDir(args[1]) THEN Panic(<<>>)
    ELSE IF DecodablePrefix(Content(args[1])) # Content(args[1])
    THEN Panic(DecodablePrefix(Content(args[1])))
    ELSE Outcome(Ok, Content(args[1]), FALSE)

\* args[0] panics on an empty argument list; there is no check_args!
builtins_run_executable(args) ==
    IF args = <<>> THEN Panic(<<>>)
    ELSE IF resolve_path(args[1]) = ""
    THEN Fails(FailedToRun, "run-executable", args,
               "Failed to resolve executable path: '" \o args[1] \o "'")
    ELSE [Outcome(Ok, <<>>, FALSE) EXCEPT !.exec = resolve_path(args[1])]

\* str::parse::<usize> and str::parse::<bool> on the values used here:
\* <<v>> for Ok(v), <<>> for Err
parse_usize(value) ==
    CASE value = "0" -> << 0 >> [] value = "3" -> << 3 >> [] OTHER -> <<>>
parse_bool(value) ==
    CASE value = "true" -> << TRUE >> [] value = "false" -> << FALSE >> [] OTHER -> <<>>

\* faulty variant: a value that does not parse switches the setting off
builtins_configure_lenient(args) ==
    IF check_args_fails(args, 2) THEN check_args_outcome("configure", args, 2, "")
    ELSE CASE args[1] = "truncation" ->
                    OkWith([ShellState EXCEPT !.truncation_factor = parse_usize(args[2])])
           [] args[1] = "history-limit" ->
                    OkWith([ShellState EXCEPT !.history_limit = parse_usize(args[2])])
           [] args[1] = "show-errors" ->
                    OkWith([ShellState EXCEPT !.show_errors = (args[2] = "true")])
           [] OTHER ->
                    Fails(InvalidArgument(args[1]), "configure", args,
                          "Invalid configuration key: '" \o args[1] \o "'")

\* configure: one key and one value
builtins_configure(args) ==
    IF check_args_fails(args, 2) THEN check_args_outcome("configure", args, 2, "")
    ELSE LET key == args[1]
             value == args[2]
         IN  CASE key = "truncation" ->
                    IF value = "false" THEN OkWith([ShellState EXCEPT !.truncation_factor = <<>>])
                    ELSE IF parse_usize(value) # <<>>
                    THEN OkWith([ShellState EXCEPT !.truncation_factor = parse_usize(value)])
                    ELSE Fails(InvalidValue(value), "configure", args,
                               "Invalid truncation length: '" \o value \o "'")
               [] key = "history-limit" ->
                    IF value = "false" THEN OkWith([ShellState EXCEPT !.history_limit = <<>>])
                    ELSE IF parse_usize(value) # <<>>
                    THEN OkWith([ShellState EXCEPT !.history_limit = parse_usize(value)])
                    ELSE Fails(InvalidValue(value), "configure", args,
                               "Invalid history limit: '" \o value \o "'")
               [] key = "show-errors" ->
                    IF parse_bool(value) # <<>>
                    THEN OkWith([ShellState EXCEPT !.show_errors = parse_bool(value)[1]])
                    ELSE Fails(InvalidValue(value), "configure", args,
                               "Invalid value for show-errors: '" \o value \o "'")
               [] OTHER ->
                    Fails(InvalidArgument(key), "configure", args,
                          "Invalid configuration key: '" \o key \o "'")

\* str::to_uppercase on the names used here
to_uppercase(s) ==
    CASE s = "path" -> "PATH" [] s = "cwd" -> "CWD" [] OTHER -> s

\* shell.env().USER() and HOME()
USER == "user"
HOME == "/home"

\* the lines "[i]: path" of the PATH listing from entry i on (i counts from 1,
\* the listing from 0)
RECURSIVE PathListing(_)
PathListing(i) ==
    IF i > Len(PATH) THEN <<>>
    ELSE << "[" \o IntToString(i - 1) \o "]: " \o PATH[i] >> \o PathListing(i + 1)

builtins_environment_variable(args) ==
    IF check_args_fails(args, 1)
    THEN check_args_outcome("environment-variable", args, 1, "")
    ELSE LET name == to_uppercase(args[1])
         IN  CASE name = "PATH" -> Outcome(Ok, PathListing(1), FALSE)
               [] name = "USER" -> Outcome(Ok, << USER >>, FALSE)
               [] name = "HOME" -> Outcome(Ok, << HOME >>, FALSE)
               [] name \in {"CWD", "WORKING-DIRECTORY"} -> Outcome(Ok, << CWD >>, FALSE)
               [] OTHER -> Fails(InvalidArgument(args[1]), "environment-variable", args,
                                 "Invalid environment variable: '" \o args[1] \o "'")

\* "append" is push_front and "prepend" is push_back
builtins_edit_path(args) ==
    IF check_args_fails(args, 2) THEN check_args_outcome("edit-path", args, 2, "")
    ELSE LET action == args[1]
             path == resolve_path(args[2])
         IN  IF path = ""
             THEN Fails(InvalidArgument(args[2]), "edit-path", args,
                        "Invalid directory: '" \o args[2] \o "'")
             ELSE CASE action = "append" ->
                         OkWith([ShellState EXCEPT !.PATH = << path >> \o PATH])
                    [] action = "prepend" ->
                         OkWith([ShellState EXCEPT !.PATH = Append(PATH, path)])
                    [] OTHER ->
                         Fails(InvalidArgument(action), "edit-path", args,
                               "Invalid action: '" \o action \o "'")

\* Builtin::run: the function registered under the true name
Builtin_run(true_name, args) ==
    CASE true_name = "test" -> builtins_test(args)
      [] true_name = "exit" -> builtins_exit(args)
      [] true_name = "working-directory" -> builtins_working_directory(args)
      [] true_name = "change-directory" -> builtins_change_directory(args)
      [] true_name = "list-directory" -> builtins_list_directory(args)
      [] true_name = "previous-directory" -> builtins_previous_directory(args)
      [] true_name = "next-directory" -> builtins_next_directory(args)
      [] true_name = "clear-terminal" -> builtins_clear_terminal(args)
      [] true_name = "make-file" -> builtins_make_file(args)
      [] true_name = "make-directory" -> builtins_make_directory(args)
      [] true_name = "delete-file" -> builtins_delete_file(args)
      [] true_name = "read-file" -> builtins_read_file(args)
      [] true_name = "run-executable" -> builtins_run_executable(args)
      [] true_name = "configure" -> builtins_configure(args)
      [] true_name = "environment-variable" -> builtins_environment_variable(args)
      [] true_name = "edit-path" -> builtins_edit_path(args)

(***************************************************************************)
(* Spec: startup, top-level loop, eval, dispatch, Executable::run          *)
(***************************************************************************)
\* names typed at the prompt: a builtin true name that is also a program in
\* /usr/bin, an alias, an external program, and a name found nowhere
Pairs ==
    { <<"test", <<>>>>, <<"test", <<"a">>>>, <<"q", <<"a">>>>, <<"q", <<>>>>,
      <<"prog", <<>>>>, <<"prog", <<"a">>>>, <<"ghost", <<"a">>>> }
Lines == SeqsUpTo(Pairs, MaxLine)

\* what a child process does: the lines it writes to each stream and its exit
\* status (<<code>>, or <<>> when a signal ended it)
ChildOut == {<<>>, <<"out">>}
ChildErr == {<<>>, <<"err">>}
ExitStatuses == {<<0>>, <<1>>, <<>>}

\* an entry of the log of the current eval call
Entry(op, k, name, args, path) ==
    [op |-> op, k |-> k, name |-> name, args |-> args, path |-> path]

Init ==
    /\ commands = <<>>
    /\ rname = ""
    /\ rfound = 0
    /\ pc = "startup"
    /\ PATH = << "/usr/bin", "/bin" >>
    /\ show_errors = TRUE
    /\ success = TRUE
    /\ fs \in FsStates
    /\ line = <<>>
    /\ idx = 0
    /\ results = <<>>
    /\ cand = ""
    /\ child = <<>>
    /\ dispatched = <<>>
    /\ threads = 0
    /\ sys = <<>>
    /\ written = <<>>
    /\ evalResult = <<>>
    /\ RunIdle
    /\ EnvIdle
    /\ ConsoleIdle
    /\ PathIdle

\* Dispatcher::default: one add_builtin per row of the table, then the loop starts
DefaultAdd ==
    /\ pc = "startup"
    /\ Len(commands) < Len(DefaultBuiltins)
    /\ LET row == DefaultBuiltins[Len(commands) + 1]
       IN  add_builtin(row.true_name, row.aliases)
    /\ pc' = IF Len(commands) + 1 = Len(DefaultBuiltins) THEN "prompt" ELSE "startup"
    /\ UNCHANGED <<rname, rfound, PATH, show_errors, success, fs, line, idx, results,
                   cand, child, dispatched, threads, sys, written, evalResult>>
    /\ UNCHANGED runVars
    /\ UNCHANGED consoleVars
    /\ UNCHANGED pathVars
    /\ UNCHANGED shellVars

\* the environment: a file disappears.  Only the steps that look at the
\* filesystem can tell when, so it is interleaved before those.
FsVanish ==
    /\ pc \in {"prompt", "eval", "metadata", "spawn"}
    /\ \E f \in Files :
          /\ fs[f] # <<>>
          /\ fs' = [fs EXCEPT ![f] = <<>>]
    /\ UNCHANGED <<commands, rname, rfound, pc, PATH, show_errors, success, line, idx,
                   results, cand, child, dispatched, threads, sys, written, evalResult>>
    /\ UNCHANGED runVars
    /\ UNCHANGED consoleVars
    /\ UNCHANGED pathVars
    /\ UNCHANGED shellVars

\* console.read_line returns and eval parses the line
ReadLine ==
    /\ pc = "prompt"
    /\ \E l \in Lines : line' = l
    /\ idx' = 1
    /\ pc' = "eval"
    /\ UNCHANGED <<commands, rname, rfound, PATH, show_errors, success, fs, results,
                   cand, child, dispatched, threads, sys, written, evalResult>>
    /\ UNCHANGED runVars
    /\ UNCHANGED consoleVars
    /\ UNCHANGED pathVars
    /\ UNCHANGED shellVars

\* faulty variant: the first loop of eval stops at the first error
EvalLoopMoreUntilError(i, cmds, res) ==
    i <= Len(cmds) /\ \A j \in 1..Len(res) : res[j].ok

\* the first loop of eval has another pair to dispatch
EvalLoopMore(i, cmds, res) == i <= Len(cmds)

\* faulty variant: a program on the PATH takes precedence over a builtin
IsBuiltinUnlessOnPath(command_name) ==
    resolve(commands, command_name) # 0 /\ resolve_executable(command_name, PATH) = ""

\* dispatch: `if let Some(command) = self.resolve(command_name)`
IsBuiltin(command_name) == resolve(commands, command_name) # 0

\* results.push(result) and on to the next pair
PushResult(result) ==
    /\ results' = Append(results, result)
    /\ idx' = idx + 1
    /\ pc' = "eval"

\* dispatch of a name the registry resolves: command.run
DispatchBuiltin ==
    /\ pc = "eval"
    /\ EvalLoopMore(idx, line, results)
    /\ LET command_name == line[idx][1]
           command_args == line[idx][2]
           found == resolve(commands, command_name)
       IN  /\ IsBuiltin(command_name)
           /\ LET o == Builtin_run(commands[found].true_name, command_args)
              IN  /\ sys' = << Entry("builtin", idx, commands[found].true_name,
                                      command_args, "") >>
                  /\ written' = o.out
                  /\ CWD' = o.after.CWD
                  /\ backward' = o.after.backward
                  /\ forward' = o.after.forward
                  /\ PATH' = o.after.PATH
                  /\ show_errors' = o.after.show_errors
                  /\ truncation_factor' = o.after.truncation_factor
                  /\ history_limit' = o.after.history_limit
                  /\ fs' = o.after.fs
                  /\ cand' = o.exec
                  /\ IF o.panics
                     THEN pc' = "panicked" /\ UNCHANGED <<results, idx>>
                     ELSE IF o.exits
                     THEN pc' = "exited" /\ UNCHANGED <<results, idx>>
                     ELSE IF o.exec # ""
                     THEN pc' = "spawn" /\ UNCHANGED <<results, idx>>
                     ELSE PushResult(o.result)
    /\ dispatched' = Append(dispatched, line[idx])
    /\ threads' = 0
    /\ UNCHANGED <<commands, rname, rfound, success, line, child, evalResult, history>>
    /\ UNCHANGED runVars
    /\ UNCHANGED consoleVars
    /\ UNCHANGED pathVars

\* dispatch of any other name: Path::from_path_var
DispatchPath ==
    /\ pc = "eval"
    /\ EvalLoopMore(idx, line, results)
    /\ LET command_name == line[idx][1]
           command_args == line[idx][2]
           path == resolve_executable(command_name, PATH)
       IN  /\ ~IsBuiltin(command_name)
           /\ sys' = << Entry("search", idx, command_name, command_args, path) >>
           /\ IF path = ""
              THEN /\ PushResult(EvalError(UnknownCommand(command_name),
                                           command_name, command_args))
                   /\ cand' = ""
              ELSE /\ cand' = path
                   /\ pc' = "metadata"
                   /\ UNCHANGED <<results, idx>>
    /\ dispatched' = Append(dispatched, line[idx])
    /\ threads' = 0
    /\ written' = <<>>
    /\ UNCHANGED <<commands, rname, rfound, PATH, show_errors, success, fs, line, child,
                   evalResult>>
    /\ UNCHANGED runVars
    /\ UNCHANGED consoleVars
    /\ UNCHANGED pathVars
    /\ UNCHANGED shellVars

\* faulty variant: only the owner's execute bit is looked at
NoExecuteBitOwnerOnly(permission_code) == BitAnd(permission_code, 64) = 0

\* permission_code & 0o111 == 0
NoExecuteBit(permission_code) == BitAnd(permission_code, ExecMask) = 0

\* faulty variant: an unreadable candidate is reported as an unknown command
metadata_error_unknown(path, command_name, command_args) ==
    EvalError(UnknownCommand(command_name), command_name, command_args)

\* dispatch: the error returned when the metadata of the candidate cannot be read
metadata_error(path, command_name, command_args) ==
    EvalError(FailedToReadMetadata(path), command_name, command_args)

\* dispatch: fs_err::metadata of the candidate and the permission check
DispatchMetadata ==
    /\ pc = "metadata"
    /\ LET command_name == line[idx][1]
           command_args == line[idx][2]
       IN  /\ sys' = Append(sys, Entry("metadata", idx, command_name, command_args, cand))
           /\ IF ~Exists(cand)
              THEN PushResult(metadata_error(cand, command_name, command_args))
              ELSE IF NoExecuteBit(fs[cand][1])
              THEN PushResult(EvalError(NotAnExecutable(fs[cand][1]),
                                        command_name, command_args))
              ELSE pc' = "spawn" /\ UNCHANGED <<results, idx>>
    /\ UNCHANGED <<commands, rname, rfound, PATH, show_errors, success, fs, line, cand,
                   child, dispatched, threads, written, evalResult>>
    /\ UNCHANGED runVars
    /\ UNCHANGED consoleVars
    /\ UNCHANGED pathVars
    /\ UNCHANGED shellVars

\* faulty variant: the executable name stays in the argument list
run_executable_args_whole(args) == args

\* run_executable: args.remove(0) before Executable::run
run_executable_args(args) == Tail(args)

\* the arguments Executable::run is called with for the pair being
\* dispatched: those of run_executable when the name is a builtin's, and
\* command_args as they are when the program was found on the PATH
Executable_args ==
    IF IsBuiltin(line[idx][1]) THEN run_executable_args(line[idx][2]) ELSE line[idx][2]

\* faulty variant: the run leaves the shell in the directory of the program
Executable_run_shell_chdir(state) == [state EXCEPT !.CWD = "/usr/bin"]

\* Executable::run does not use its _shell parameter: the shell state after
\* the call is the one before
Executable_run_shell(state) == state

\* the working directory, the PATH and the configuration across a step of
\* Executable::run
ShellAfterRun ==
    LET after == Executable_run_shell(ShellState)
    IN  /\ CWD' = after.CWD
        /\ backward' = after.backward
        /\ forward' = after.forward
        /\ PATH' = after.PATH
        /\ show_errors' = after.show_errors
        /\ truncation_factor' = after.truncation_factor
        /\ history_limit' = after.history_limit

\* whether Process::spawn can succeed: never on a missing path; on an
\* existing one the OS may still refuse
SpawnOutcomes(path) == IF Exists(path) THEN BOOLEAN ELSE {FALSE}

\* faulty variant: the reader threads are created before the spawn is checked
ThreadsAfterSpawnEager(ok) == 2

\* reader threads created by one Executable::run: one per stream, only after
\* the let-else on the spawn result
ThreadsAfterSpawn(ok) == IF ok THEN 2 ELSE 0

\* Executable::run up to the creation of the reader threads
ExecSpawn ==
    /\ pc = "spawn"
    /\ LET command_name == line[idx][1]
           command_args == Executable_args
           exe_name == cand
       IN  \E ok \in SpawnOutcomes(cand) :
              /\ threads' = threads + ThreadsAfterSpawn(ok)
              /\ IF ok
                 THEN /\ sys' = Append(sys, Entry("spawn", idx, command_name,
                                                  command_args, cand))
                      /\ \E out \in ChildOut, err \in ChildErr, status \in ExitStatuses :
                            child' = [out |-> out, err |-> err, status |-> status]
                      /\ pc' = "running"
                      /\ UNCHANGED <<results, idx>>
                 ELSE /\ sys' = Append(sys, Entry("spawn_failed", idx, command_name,
                                                  command_args, cand))
                      /\ child' = <<>>
                      /\ PushResult(CommandError(PathNoLongerExists(cand), "Executable",
                                                 exe_name, command_args))
    /\ ShellAfterRun
    /\ UNCHANGED <<commands, rname, rfound, success, fs, line, cand, dispatched, written,
                   evalResult, history>>
    /\ UNCHANGED runVars
    /\ UNCHANGED consoleVars
    /\ UNCHANGED pathVars

\* all interleavings of two sequences that keep the order of each
RECURSIVE Merges(_, _)
Merges(a, b) ==
    IF a = <<>> THEN {b}
    ELSE IF b = <<>> THEN {a}
    ELSE {<<Head(a)>> \o m : m \in Merges(Tail(a), b)}
         \cup {<<Head(b)>> \o m : m \in Merges(a, Tail(b))}

\* faulty variant: a child ended by a signal counts as a success
ExitResultSignalOk(status, exe_name, args) ==
    IF status = <<0>> \/ status = <<>> THEN Ok
    ELSE CommandError(FailedToExecute(status[1]), "Executable", exe_name, args)

\* the exit-status mapping at the end of Executable::run
ExitResult(status, exe_name, args) ==
    IF status = <<0>> THEN Ok
    ELSE CommandError(FailedToExecute(IF status = <<>> THEN DefaultExitCode ELSE status[1]),
                      "Executable", exe_name, args)

\* Executable::run from the coordinator loop to its return, as one step: the
\* lines received before the loop ends are a prefix of each stream, shown in
\* receipt order; the readers are joined and the exit status is mapped
ExecDrain ==
    /\ pc = "running"
    /\ LET command_args == Executable_args
       IN  /\ \E no \in 0..Len(child.out), ne \in 0..Len(child.err) :
                 \E shown \in Merges(SubSeq(child.out, 1, no), SubSeq(child.err, 1, ne)) :
                    written' = written \o shown
           /\ PushResult(ExitResult(child.status, cand, command_args))
    /\ child' = <<>>
    /\ ShellAfterRun
    /\ UNCHANGED <<commands, rname, rfound, success, fs, line, cand, dispatched, threads,
                   sys, evalResult, history>>
    /\ UNCHANGED runVars
    /\ UNCHANGED consoleVars
    /\ UNCHANGED pathVars

\* faulty variant: the last error of the list is returned
RECURSIVE EvalLastError(_, _)
EvalLastError(res, i) ==
    IF i > Len(res) THEN Ok
    ELSE IF ~EvalLastError(res, i + 1).ok THEN EvalLastError(res, i + 1)
    ELSE IF ~res[i].ok THEN res[i]
    ELSE Ok

\* the second loop of eval from result i on: the first error, else Ok
RECURSIVE EvalFirstError(_, _)
EvalFirstError(res, i) ==
    IF i > Len(res) THEN Ok
    ELSE IF ~res[i].ok THEN res[i]
    ELSE EvalFirstError(res, i + 1)

\* eval returns
EvalReturn ==
    /\ pc = "eval"
    /\ ~EvalLoopMore(idx, line, results)
    /\ evalResult' = EvalFirstError(results, 1)
    /\ pc' = "handle"
    /\ UNCHANGED <<commands, rname, rfound, PATH, show_errors, success, fs, line, idx,
                   results, cand, child, dispatched, threads, sys, written>>
    /\ UNCHANGED runVars
    /\ UNCHANGED consoleVars
    /\ UNCHANGED pathVars
    /\ UNCHANGED shellVars

\* faulty variant: the hint too is shown only when show_errors is set
handle_error_lines_gated(e) ==
    IF show_errors
    THEN (IF command_name_if_unknown(e) # <<>>
          THEN << "Unknown command: " \o command_name_if_unknown(e)[1] >>
          ELSE <<>>) \o Display(e)
    ELSE <<>>

\* what handle_error shows for an error
handle_error_lines(e) ==
    (IF command_name_if_unknown(e) # <<>>
     THEN << "Unknown command: " \o command_name_if_unknown(e)[1] >>
     ELSE <<>>)
    \o (IF show_errors THEN Display(e) ELSE <<>>)

\* the body of the top-level loop after eval: handle_error
HandleError ==
    /\ pc = "handle"
    /\ IF ~evalResult.ok
       THEN /\ written' = handle_error_lines(evalResult)
            /\ UNCHANGED success
       ELSE /\ success' = TRUE
            /\ written' = <<>>
    /\ sys' = <<>>
    /\ pc' = "handled"
    /\ UNCHANGED <<commands, rname, rfound, PATH, show_errors, fs, line, idx, results,
                   cand, child, dispatched, threads, evalResult>>
    /\ UNCHANGED runVars
    /\ UNCHANGED consoleVars
    /\ UNCHANGED pathVars
    /\ UNCHANGED shellVars

\* the end of the loop body (shell.history_add) and the next iteration: the
\* record of the finished eval call is dropped
NextPrompt ==
    /\ pc = "handled"
    /\ line' = <<>>
    /\ idx' = 0
    /\ results' = <<>>
    /\ cand' = ""
    /\ child' = <<>>
    /\ dispatched' = <<>>
    /\ threads' = 0
    /\ sys' = <<>>
    /\ written' = <<>>
    /\ evalResult' = <<>>
    /\ pc' = "prompt"
    /\ UNCHANGED <<commands, rname, rfound, PATH, show_errors, success, fs>>
    /\ UNCHANGED runVars
    /\ UNCHANGED consoleVars
    /\ UNCHANGED pathVars
    /\ UNCHANGED shellVars

Next ==
    \/ DefaultAdd
    \/ FsVanish
    \/ ReadLine
    \/ DispatchBuiltin
    \/ DispatchPath
    \/ DispatchMetadata
    \/ ExecSpawn
    \/ ExecDrain
    \/ EvalReturn
    \/ HandleError
    \/ NextPrompt

Spec == Init /\ [][Next]_vars

(***************************************************************************)
(* SpecRun: one Executable::run after a successful spawn, thread by thread *)
(*                                                                         *)
(* The child process, the two reader threads and the coordinating thread   *)
(* take their steps in any order.  A timed receive that finds its channel  *)
(* empty expires: whether the reader forwards a line before or after that  *)
(* is a matter of scheduling.                                              *)
(***************************************************************************)
MaxOut == 2           \* SpecRun: lines the child writes to one stream

Streams == {"stdout", "stderr"}

\* line i of a stream, when it is valid text: o1, o2, ... and e1, e2, ...
StreamLine(s, i) == (IF s = "stdout" THEN "o" ELSE "e") \o IntToString(i)

\* what a child may write to a stream: up to MaxOut lines, at most one of them
\* undecodable
StreamScripts(s) ==
    UNION { { [i \in 1..n |-> IF i \in B THEN InvalidUtf8 ELSE StreamLine(s, i)] :
                B \in {X \in SUBSET (1..n) : Cardinality(X) <= 1} } : n \in 0..MaxOut }

\* TerminalError
FailedToParseStdout(msg) ==
    [category |-> "Terminal", variant |-> "FailedToParseStdout", msg |-> msg]
FailedToParseStderr(msg) ==
    [category |-> "Terminal", variant |-> "FailedToParseStderr", msg |-> msg]

\* the messages on a channel: Result<String, Box<dyn RushError>>
OkPacket(text) == [ok |-> TRUE, line |-> text]

\* the error a reader thread returns when a line cannot be decoded
ReaderError(s, exe_name, args) ==
    CommandError(IF s = "stdout"
                 THEN FailedToParseStdout("stream did not contain valid UTF-8")
                 ELSE FailedToParseStderr("stream did not contain valid UTF-8"),
                 "Executable", exe_name, args)

\* a reader thread whose closure has not returned yet
Reading == [state |-> "reading"]

\* exe_name and args of the run
RunExe == cand
RunArgs == line[idx][2]

InitRun ==
    /\ commands = DefaultBuiltins
    /\ rname = ""
    /\ rfound = 0
    /\ PATH = << "/usr/bin", "/bin" >>
    /\ show_errors = TRUE
    /\ success = TRUE
    /\ cand = Join("/usr/bin", "prog")
    /\ fs = [f \in Files |-> IF f = Join("/usr/bin", "prog") THEN <<33261>> ELSE <<>>]
    /\ line = << <<"prog", <<>>>> >>
    /\ idx = 1
    /\ results = <<>>
    /\ dispatched = << <<"prog", <<>>>> >>
    /\ evalResult = <<>>
    /\ sys = << Entry("spawn", 1, "prog", <<>>, Join("/usr/bin", "prog")) >>
    /\ written = <<>>
    /\ \E out \in StreamScripts("stdout"), err \in StreamScripts("stderr"),
          status \in ExitStatuses :
             child = [out |-> out, err |-> err, status |-> status]
    /\ proc = [state |-> "running", wrote |-> [s \in Streams |-> 0]]
    /\ pipe = [s \in Streams |-> <<>>]
    /\ reader = [s \in Streams |-> Reading]
    /\ rx = [s \in Streams |-> <<>>]
    /\ threads = ThreadsAfterSpawn(TRUE)
    /\ stdout_done = FALSE
    /\ stderr_done = FALSE
    /\ process_done = FALSE
    /\ joined = {}
    /\ runResult = <<>>
    /\ pc = "run_loop"
    /\ EnvIdle
    /\ ConsoleIdle
    /\ PathIdle

\* the part of the state only the shell around the run uses
RunFrame == <<commands, rname, rfound, PATH, show_errors, success, fs, line, idx,
              results, cand, child, dispatched, threads, evalResult, CWD, backward,
              forward, truncation_factor, history_limit, history, line_buffer,
              cursor_index, event, handled, calls, lineRead, thePath, untruncated, called>>

\* the lines the child is to write to a stream
Script(s) == IF s = "stdout" THEN child.out ELSE child.err

\* the child writes its next line to one of its streams
ChildWrite(s) ==
    /\ proc.state = "running"
    /\ proc.wrote[s] < Len(Script(s))
    /\ pipe' = [pipe EXCEPT ![s] = Append(@, Script(s)[proc.wrote[s] + 1])]
    /\ proc' = [proc EXCEPT !.wrote[s] = @ + 1]
    /\ UNCHANGED <<pc, reader, rx, stdout_done, stderr_done, process_done, joined,
                   runResult, sys, written>>
    /\ UNCHANGED RunFrame

\* the child ends, which closes the write ends of both pipes
ChildExit ==
    /\ proc.state = "running"
    /\ \A s \in Streams : proc.wrote[s] = Len(Script(s))
    /\ proc' = [proc EXCEPT !.state = "exited"]
    /\ UNCHANGED <<pc, pipe, reader, rx, stdout_done, stderr_done, process_done,
                   joined, runResult, sys, written>>
    /\ UNCHANGED RunFrame

\* faulty variant: the reader shows the line itself
tx_show(s, packet) ==
    /\ written' = Append(written, packet.line)
    /\ UNCHANGED rx

\* faulty variant: the packet overtakes the ones already in the channel
tx_send_front(s, packet) ==
    /\ rx' = [rx EXCEPT ![s] = <<packet>> \o @]
    /\ UNCHANGED written

\* tx_stdout.send / tx_stderr.send: the packet joins the channel of the stream
tx_send(s, packet) ==
    /\ rx' = [rx EXCEPT ![s] = Append(@, packet)]
    /\ UNCHANGED written

\* one round of `for line in reader.lines()`: a decoded line is sent as
\* Ok(line); on a line that cannot be decoded the closure returns the error
\* (exe_error! is a `return Err(..)`), which sends nothing and drops the sender
ReaderLine(s) ==
    /\ reader[s] = Reading
    /\ pipe[s] # <<>>
    /\ pipe' = [pipe EXCEPT ![s] = Tail(@)]
    /\ IF Decodes(Head(pipe[s]))
       THEN /\ tx_send(s, OkPacket(Head(pipe[s])))
            /\ UNCHANGED reader
       ELSE /\ reader' = [reader EXCEPT ![s] = ReaderError(s, RunExe, RunArgs)]
            /\ UNCHANGED <<rx, written>>
    /\ UNCHANGED <<pc, proc, stdout_done, stderr_done, process_done, joined,
                   runResult, sys>>
    /\ UNCHANGED RunFrame

\* reader.lines() ends at end of file: the closure returns Ok(()) and drops
\* the sender
ReaderEof(s) ==
    /\ reader[s] = Reading
    /\ pipe[s] = <<>>
    /\ proc.state = "exited"
    /\ reader' = [reader EXCEPT ![s] = Ok]
    /\ UNCHANGED <<pc, proc, pipe, rx, stdout_done, stderr_done, process_done, joined,
                   runResult, sys, written>>
    /\ UNCHANGED RunFrame

\* faulty variant: the loop goes on only while nothing at all is done
LoopContinuesWhileAll(sd, ed, pd) == ~sd /\ ~ed /\ ~pd

\* faulty variant: the loop does not look at the process
LoopContinuesStreamsOnly(sd, ed, pd) == ~sd \/ ~ed

\* while !stdout_done || !stderr_done || !process_done
LoopContinues(sd, ed, pd) == ~sd \/ ~ed \/ ~pd

\* faulty variant: the readers are not joined
AfterLoopNoJoin == "wait"

\* where the coordinator goes on when the loop has ended
AfterLoop == "join_stdout"

\* the test of the while loop
CoordLoop ==
    /\ pc = "run_loop"
    /\ pc' = IF LoopContinues(stdout_done, stderr_done, process_done)
             THEN "recv_stdout" ELSE AfterLoop
    /\ UNCHANGED <<proc, pipe, reader, rx, stdout_done, stderr_done, process_done,
                   joined, runResult, sys, written>>
    /\ UNCHANGED RunFrame

\* faulty variant: every line is shown twice
showln_twice(console, text) == console \o <<text, text>>

\* showln!(console, "{}", &line)
showln(console, text) == Append(console, text)

\* one `if let Ok(packet) = rx.recv_timeout(read_timeout)` of the loop body on
\* the channel of stream s, leaving the flag of the stream as `done`.  A
\* packet in the channel is received: Ok(line) is shown, Err is returned by
\* `packet?`.  From an empty channel the receive fails (Timeout while the
\* sender lives, Disconnected once it is dropped) and the flag is set.
CoordRecv(s, next_pc) ==
    IF rx[s] # <<>>
    THEN /\ rx' = [rx EXCEPT ![s] = Tail(@)]
         /\ IF Head(rx[s]).ok
            THEN /\ written' = showln(written, Head(rx[s]).line)
                 /\ pc' = next_pc
                 /\ UNCHANGED runResult
            ELSE /\ runResult' = Head(rx[s]).err
                 /\ pc' = "returned"
                 /\ UNCHANGED written
         /\ UNCHANGED <<stdout_done, stderr_done>>
    ELSE /\ stdout_done' = IF s = "stdout" THEN TRUE ELSE stdout_done
         /\ stderr_done' = IF s = "stderr" THEN TRUE ELSE stderr_done
         /\ pc' = next_pc
         /\ UNCHANGED <<rx, written, runResult>>

\* faulty variant: stdout is emptied before stderr gets its turn
AfterRecvStdoutDrain(queue) == IF Len(queue) > 1 THEN "recv_stdout" ELSE "recv_stderr"

\* after the receive on rx_stdout comes the receive on rx_stderr, whatever is
\* left in the stdout channel
AfterRecvStdout(queue) == "recv_stderr"

CoordRecvStdout ==
    /\ pc = "recv_stdout"
    /\ CoordRecv("stdout", AfterRecvStdout(rx["stdout"]))
    /\ UNCHANGED <<proc, pipe, reader, process_done, joined, sys>>
    /\ UNCHANGED RunFrame

\* faulty variant: try_wait is called in every iteration
NeedsTryWaitAlways(pd) == TRUE

\* if !process_done
NeedsTryWait(pd) == ~pd

CoordRecvStderr ==
    /\ pc = "recv_stderr"
    /\ CoordRecv("stderr",
                 IF NeedsTryWait(process_done) THEN "try_wait" ELSE "run_loop")
    /\ UNCHANGED <<proc, pipe, reader, process_done, joined, sys>>
    /\ UNCHANGED RunFrame

\* faulty variant: the flags are left as they are when the exit is seen
DoneAfterExitKept(done) == done

\* stdout_done = false; stderr_done = false in the Ok(Some(_)) arm
DoneAfterExit(done) == FALSE

\* process.try_wait() gives Ok(Some(_)) or Ok(None)
CoordTryWait ==
    /\ pc = "try_wait"
    /\ IF proc.state = "exited"
       THEN /\ process_done' = TRUE
            /\ stdout_done' = DoneAfterExit(stdout_done)
            /\ stderr_done' = DoneAfterExit(stderr_done)
       ELSE UNCHANGED <<process_done, stdout_done, stderr_done>>
    /\ pc' = "run_loop"
    /\ UNCHANGED <<proc, pipe, reader, rx, joined, runResult, sys, written>>
    /\ UNCHANGED RunFrame

\* what eprintln! puts on the standard error of the shell
WaitErrorLine == "Error while waiting for child process"

WaitFailed == \E i \in DOMAIN sys : sys[i].op = "eprintln"

\* process.try_wait() gives Err: the OS no longer knows the child (it has
\* ended and was reaped behind the back of the shell); eprintln! and break
CoordTryWaitErr ==
    /\ pc = "try_wait"
    /\ proc.state = "exited"
    /\ sys' = Append(sys, Entry("eprintln", idx, RunExe, RunArgs, WaitErrorLine))
    /\ pc' = AfterLoop
    /\ UNCHANGED <<proc, pipe, reader, rx, stdout_done, stderr_done, process_done,
                   joined, runResult, written>>
    /\ UNCHANGED RunFrame

\* stdout_thread.join().unwrap(): blocks until the closure has returned; its
\* result is dropped
CoordJoinStdout ==
    /\ pc = "join_stdout"
    /\ reader["stdout"] # Reading
    /\ joined' = joined \cup {"stdout"}
    /\ pc' = "join_stderr"
    /\ UNCHANGED <<proc, pipe, reader, rx, stdout_done, stderr_done, process_done,
                   runResult, sys, written>>
    /\ UNCHANGED RunFrame

\* stderr_thread.join().unwrap()
CoordJoinStderr ==
    /\ pc = "join_stderr"
    /\ reader["stderr"] # Reading
    /\ joined' = joined \cup {"stderr"}
    /\ pc' = "wait"
    /\ UNCHANGED <<proc, pipe, reader, rx, stdout_done, stderr_done, process_done,
                   runResult, sys, written>>
    /\ UNCHANGED RunFrame

\* faulty variant: the status is taken without waiting for the child
WaitReadyAtOnce(p) == TRUE

\* process.wait() blocks until the child has ended
WaitReady(p) == p.state = "exited"

\* process.wait().expect(..) and the match on status.success(): after a
\* failed try_wait the wait fails as well and expect panics
CoordWait ==
    /\ pc = "wait"
    /\ WaitReady(proc)
    /\ IF WaitFailed
       THEN pc' = "panicked" /\ UNCHANGED runResult
       ELSE /\ runResult' = ExitResult(child.status, RunExe, RunArgs)
            /\ pc' = "returned"
    /\ UNCHANGED <<proc, pipe, reader, rx, stdout_done, stderr_done, process_done,
                   joined, sys, written>>
    /\ UNCHANGED RunFrame

NextRun ==
    \/ \E s \in Streams : ChildWrite(s)
    \/ ChildExit
    \/ \E s \in Streams : ReaderLine(s)
    \/ \E s \in Streams : ReaderEof(s)
    \/ CoordLoop
    \/ CoordRecvStdout
    \/ CoordRecvStderr
    \/ CoordTryWait
    \/ CoordTryWaitErr
    \/ CoordJoinStdout
    \/ CoordJoinStderr
    \/ CoordWait

SpecRun == InitRun /\ [][NextRun]_vars

(***************************************************************************)
(* Registry claims (SpecResolve)                                           *)
(***************************************************************************)
Min(S) == CHOOSE x \in S : \A y \in S : x <= y

AliasSet(command) == {command.aliases[i] : i \in DOMAIN command.aliases}

TrueNameMatches(n) == {i \in DOMAIN commands : commands[i].true_name = n}
AliasMatches(n) == {i \in DOMAIN commands : n \in AliasSet(commands[i])}

Resolved == pc = "registry" /\ rname # ""

\* C1 (as claimed): resolve returns the command whose true_name equals the
\* name if there is one, and only otherwise the first-registered command whose
\* alias set contains the name, and none if there is neither.
C1_TrueNameFirst ==
    Resolved =>
        rfound = IF TrueNameMatches(rname) # {} THEN Min(TrueNameMatches(rname))
                 ELSE IF AliasMatches(rname) # {} THEN Min(AliasMatches(rname))
                 ELSE 0

\* C1 (amended): resolve returns the first-registered command whose true_name
\* equals the name or whose alias set contains it, and none if there is no
\* such command; an alias of an earlier command wins over the true name of a
\* later one.
C1_FirstMatch ==
    Resolved =>
        rfound = IF TrueNameMatches(rname) \cup AliasMatches(rname) # {}
                 THEN Min(TrueNameMatches(rname) \cup AliasMatches(rname))
                 ELSE 0

\* an alias of the first command is the true name of the second, and resolve
\* was asked for it
C1_Witness ==
    /\ Resolved
    /\ Len(commands) = 2
    /\ commands[1].true_name # rname
    /\ rname \in AliasSet(commands[1])
    /\ commands[2].true_name = rname
    /\ rfound = 1

\* C2: resolve matches exactly and case-sensitively: the command returned has
\* the name as its true_name or among its aliases, and a name no command
\* carries (such as "Q" when only "q" is registered) resolves to none.
C2_ExactMatch ==
    Resolved =>
        /\ rfound # 0 =>
              \/ commands[rfound].true_name = rname
              \/ rname \in AliasSet(commands[rfound])
        /\ (TrueNameMatches(rname) \cup AliasMatches(rname) = {}) => rfound = 0

\* Scenario A: exit with alias q is registered, no command carries "Q", and
\* resolve("Q") returned none
C2_Witness ==
    /\ Resolved
    /\ Len(commands) >= 1
    /\ commands[1].true_name = "exit"
    /\ "q" \in AliasSet(commands[1])
    /\ rname = "Q"
    /\ rfound = 0

(***************************************************************************)
(* Dispatcher claims (Spec)                                                *)
(***************************************************************************)
NamesOf(command) == {command.true_name} \cup AliasSet(command)

\* C3: in the registry built at startup no name (true name or alias) occurs
\* in two commands, so no alias shadows a true name and every name resolves
\* to at most one command whatever the scan order.
C3_NoShadowing ==
    /\ pc \in {"startup", "prompt"} =>
          /\ \A i, j \in DOMAIN commands :
                i # j => NamesOf(commands[i]) \cap NamesOf(commands[j]) = {}
          /\ \A i \in DOMAIN commands : \A n \in NamesOf(commands[i]) :
                TrueNameMatches(n) \cup AliasMatches(n) = {i}
    /\ pc # "startup" => commands = DefaultBuiltins

\* startup is over, all sixteen builtins are registered, and the alias md
\* belongs to make-directory alone
C3_Witness ==
    /\ pc = "prompt"
    /\ Len(commands) = 16
    /\ AliasMatches("md") = {10}
    /\ commands[10].true_name = "make-directory"

\* the main thread is inside eval
InEval == pc \in {"eval", "metadata", "spawn", "running"}

\* C4: eval passes every pair of the line to dispatch exactly once and in
\* list order, whatever the earlier results: while eval runs the pairs
\* dispatched so far are a prefix of the line, and when eval returns they are
\* the whole line.
C4_AllDispatched ==
    /\ InEval =>
          /\ Len(dispatched) <= Len(line)
          /\ dispatched = SubSeq(line, 1, Len(dispatched))
          /\ Len(dispatched) = IF pc = "eval" THEN idx - 1 ELSE idx
    /\ pc = "handle" => dispatched = line

\* eval has returned from a line of two sub-commands whose first failed, and
\* the second was dispatched all the same
C4_Witness ==
    /\ pc = "handle"
    /\ Len(line) = 2
    /\ ~results[1].ok
    /\ Len(dispatched) = 2
    /\ dispatched[2] = line[2]

FailedAt(res) == {i \in DOMAIN res : ~res[i].ok}

\* C5: eval returns Ok exactly when every sub-command returned Ok; otherwise,
\* after all sub-commands have run, it returns the error of the lowest-indexed
\* failing sub-command unchanged (same kind, same context).
C5_FirstError ==
    pc = "handle" =>
        /\ Len(results) = Len(line)
        /\ evalResult.ok <=> FailedAt(results) = {}
        /\ FailedAt(results) # {} => evalResult = results[Min(FailedAt(results))]

\* both sub-commands failed in different ways and eval returned the first error
C5_Witness ==
    /\ pc = "handle"
    /\ FailedAt(results) = {1, 2}
    /\ results[1].kind.variant # results[2].kind.variant
    /\ evalResult.kind.variant = results[1].kind.variant
    /\ evalResult.command_name = line[1][1]

\* C6: a name the registry resolves is run as a builtin: its dispatch does no
\* PATH search, no metadata read and no spawn, even when a program of that
\* name is on the PATH.
C6_BuiltinPrecedence ==
    /\ \A i \in DOMAIN sys :
          resolve(commands, line[sys[i].k][1]) # 0 =>
             /\ sys[i].op = "builtin"
             /\ sys[i].name = commands[resolve(commands, line[sys[i].k][1])].true_name
    /\ (pc = "eval" /\ idx > 1 /\ resolve(commands, line[idx - 1][1]) # 0) =>
          /\ Len(sys) = 1
          /\ sys[1].k = idx - 1
          /\ threads = 0

\* test was dispatched while an executable /usr/bin/test exists: the builtin ran
C6_Witness ==
    /\ pc = "eval"
    /\ idx > 1
    /\ line[idx - 1] = <<"test", <<>>>>
    /\ Exists(Join("/usr/bin", "test"))
    /\ sys = << Entry("builtin", idx - 1, "test", <<>>, "") >>
    /\ written = << "Test command!" >>

\* the step is the start of the dispatch of a name that is no builtin
PathSearchStep ==
    /\ pc = "eval"
    /\ dispatched' # dispatched
    /\ resolve(commands, line[idx][1]) = 0

\* the PATH directories that hold the name
Holding(name) == {i \in DOMAIN PATH : Exists(Join(PATH[i], name))}

\* C7: for a name that is no builtin the candidate is the joined path of the
\* first PATH directory, in list order, in which the name exists; if no
\* directory holds it dispatch returns Dispatch.UnknownCommand(name) without
\* reading metadata or spawning.
C7_PathOrder ==
    [][PathSearchStep =>
         LET name == line[idx][1]
             args == line[idx][2]
         IN  IF Holding(name) = {}
             THEN /\ pc' = "eval"
                  /\ results' = Append(results,
                        [ok |-> FALSE, layer |-> "Eval",
                         kind |-> [category |-> "Dispatch", variant |-> "UnknownCommand",
                                   name |-> name],
                         command_type |-> "", command_name |-> name,
                         command_args |-> args])
                  /\ Len(sys') = 1
                  /\ sys'[1].op = "search"
                  /\ threads' = 0
             ELSE /\ pc' = "metadata"
                  /\ cand' = Join(PATH[Min(Holding(name))], name)
                  /\ results' = results]_vars

\* Scenario B: prog exists only under /bin, the second directory, and is the candidate
C7_Witness ==
    /\ pc = "metadata"
    /\ PATH = << "/usr/bin", "/bin" >>
    /\ line[idx][1] = "prog"
    /\ ~Exists(Join("/usr/bin", "prog"))
    /\ Exists(Join("/bin", "prog"))
    /\ cand = Join("/bin", "prog")

\* the step is the metadata read of a candidate
MetadataStep == pc = "metadata" /\ pc' # "metadata"

\* no execute bit for owner, group or other
NoneMayExecute(bits) ==
    /\ (bits \div 64) % 2 = 0
    /\ (bits \div 8) % 2 = 0
    /\ bits % 2 = 0

\* C8: a candidate whose mode has none of the three execute bits makes
\* dispatch return Dispatch.NotExecutable with exactly the observed mode and
\* nothing is spawned; with at least one execute bit the Executable is run.
C8_Permission ==
    [][(MetadataStep /\ Exists(cand)) =>
         LET bits == fs[cand][1]
         IN  IF NoneMayExecute(bits)
             THEN /\ pc' = "eval"
                  /\ results' = Append(results,
                        [ok |-> FALSE, layer |-> "Eval",
                         kind |-> [category |-> "Dispatch", variant |-> "NotAnExecutable",
                                   bits |-> bits],
                         command_type |-> "", command_name |-> line[idx][1],
                         command_args |-> line[idx][2]])
                  /\ \A i \in DOMAIN sys' : sys'[i].op \in {"search", "metadata"}
                  /\ threads' = 0
             ELSE /\ pc' = "spawn"
                  /\ cand' = cand
                  /\ results' = results]_vars

\* dispatch of prog has returned NotExecutable(0o100644) for a candidate that
\* still has that mode, and the log holds no spawn
C8_Witness ==
    /\ pc = "eval"
    /\ idx > 1
    /\ Len(results) = idx - 1
    /\ ~results[idx - 1].ok
    /\ results[idx - 1].kind.variant = "NotAnExecutable"
    /\ Exists(cand)
    /\ results[idx - 1].kind.bits = fs[cand][1]
    /\ fs[cand][1] = 33188
    /\ \A i \in DOMAIN sys : sys[i].op # "spawn"

\* C9: when the metadata of the candidate cannot be read dispatch returns
\* Dispatch.MetadataReadFailure(path) for that candidate, without trying the
\* later PATH directories and without spawning.
C9_MetadataFailure ==
    [][(MetadataStep /\ ~Exists(cand)) =>
         /\ pc' = "eval"
         /\ results' = Append(results,
               [ok |-> FALSE, layer |-> "Eval",
                kind |-> [category |-> "Dispatch", variant |-> "FailedToReadMetadata",
                          path |-> cand],
                command_type |-> "", command_name |-> line[idx][1],
                command_args |-> line[idx][2]])
         /\ Len(sys') = 2
         /\ sys'[1].op = "search"
         /\ sys'[2].op = "metadata"
         /\ sys'[2].path = cand
         /\ threads' = 0]_vars

\* /usr/bin/prog vanished after the search found it; /bin/prog is a perfectly
\* good executable, and dispatch still returned the metadata failure
C9_Witness ==
    /\ pc = "eval"
    /\ idx > 1
    /\ Len(results) = idx - 1
    /\ ~results[idx - 1].ok
    /\ results[idx - 1].kind.variant = "FailedToReadMetadata"
    /\ results[idx - 1].kind.path = Join("/usr/bin", "prog")
    /\ Exists(Join("/bin", "prog"))
    /\ fs[Join("/bin", "prog")][1] = 33261
    /\ Len(sys) = 2

\* the step is the spawn attempt of Executable::run
SpawnStep == pc = "spawn" /\ pc' # "spawn"

\* C10: when the spawn fails after the checks passed (the path vanished in
\* between) Executable::run returns Filesystem.PathVanished(path) as an error
\* value: no reader thread is started, nothing is written, and eval goes on.
C10_SpawnFailure ==
    [][SpawnStep =>
         /\ ~Exists(cand) => pc' = "eval"
         /\ pc' \in {"eval", "running"}
         /\ pc' = "eval" =>
               /\ results' = Append(results,
                     [ok |-> FALSE, layer |-> "Exec",
                      kind |-> [category |-> "Filesystem", variant |-> "PathNoLongerExists",
                                path |-> cand],
                      command_type |-> "Executable", command_name |-> cand,
                      command_args |-> line[idx][2]])
               /\ threads' = 0
               /\ written' = <<>>
               /\ idx' = idx + 1]_vars

\* the candidate vanished between the permission check and the spawn, and
\* run returned PathVanished with no thread started and nothing written
C10_Witness ==
    /\ pc = "eval"
    /\ idx > 1
    /\ Len(results) = idx - 1
    /\ ~results[idx - 1].ok
    /\ results[idx - 1].kind.variant = "PathNoLongerExists"
    /\ results[idx - 1].kind.path = cand
    /\ ~Exists(cand)
    /\ threads = 0
    /\ written = <<>>

(***************************************************************************)
(* Executable::run claims (SpecRun)                                        *)
(***************************************************************************)
Returned == pc = "returned"

\* every line of the script of a stream is valid text
AllDecodable(script) == \A i \in DOMAIN script : Decodes(script[i])

\* C11: a command that writes K lines to stdout and none to stderr and exits
\* 0 yields exactly those K lines on the sink, in order, and Ok, whatever the
\* schedule of the child, the stdout reader and the coordinator.
C11_StdoutFidelity ==
    (Returned /\ child.err = <<>> /\ child.status = <<0>> /\ AllDecodable(child.out))
        => (written = child.out /\ runResult = Ok)

\* C12: exit code 0 yields Ok, a nonzero exit code C yields FailedToExecute(C)
\* with exactly that code, and an end without a reported code yields
\* FailedToExecute(126); the result depends on the exit status alone, whatever
\* the child wrote and whatever of it was shown.
C12_ExitMapping ==
    Returned =>
        runResult = CASE child.status = <<0>> -> Ok
                      [] child.status = <<>> ->
                            CommandError(FailedToExecute(126), "Executable", cand, line[idx][2])
                      [] OTHER ->
                            CommandError(FailedToExecute(child.status[1]), "Executable",
                                         cand, line[idx][2])

\* a child that wrote to both streams and was ended by a signal: code 126
C12_Witness ==
    /\ Returned
    /\ child.status = <<>>
    /\ child.out # <<>> /\ child.err # <<>>
    /\ ~runResult.ok
    /\ runResult.kind.code = 126

\* the lines the child has written to a stream so far
WrittenBy(s) == {Script(s)[i] : i \in 1..proc.wrote[s]}

\* C13: the sink holds only lines the child wrote to stdout or stderr, each
\* at most once, and nothing of run's own; a child without output that exits
\* 1 yields FailedToExecute(1) and no sink write.
C13_OnlyChildLines ==
    /\ \A i \in DOMAIN written :
          /\ written[i] \in WrittenBy("stdout") \cup WrittenBy("stderr")
          /\ written[i] # InvalidUtf8
          /\ \A j \in DOMAIN written : written[j] = written[i] => j = i
    /\ (Returned /\ child.out = <<>> /\ child.err = <<>> /\ child.status = <<1>>)
          => /\ written = <<>>
             /\ ~runResult.ok
             /\ runResult.kind = FailedToExecute(1)

\* Scenario C has run to its end
C13_Witness ==
    /\ Returned
    /\ child.out = <<>> /\ child.err = <<>> /\ child.status = <<1>>
    /\ written = <<>>
    /\ runResult.kind = FailedToExecute(1)

\* the coordinator is past its loop
LoopEnded == pc \in {"join_stdout", "join_stderr", "wait", "returned", "panicked"}

\* both reader threads have seen the end of their stream or failed
ReadersFinished == \A s \in Streams : reader[s] # Reading

\* C15 (as claimed): the coordinator loop ends only with stdout marked
\* drained, stderr marked drained and the process seen to have exited; it
\* never ends while one of the three is false.
C15_AllThree ==
    LoopEnded => (stdout_done /\ stderr_done /\ process_done)

\* C15 (amended): the loop ends through its condition only with all three
\* flags set; the one other way out is the break on an error of try_wait,
\* after the message on the standard error, with process_done still false.
C15_AllThreeOrBreak ==
    LoopEnded =>
        \/ stdout_done /\ stderr_done /\ process_done
        \/ /\ ~process_done
           /\ \E i \in DOMAIN sys : sys[i].op = "eprintln" /\ sys[i].path = WaitErrorLine

\* the loop has ended through its condition, after output on both streams
C15_Witness ==
    /\ pc = "join_stdout"
    /\ stdout_done /\ stderr_done /\ process_done
    /\ Len(written) >= 2
    /\ \A i \in DOMAIN sys : sys[i].op # "eprintln"

\* C16: there is no cancellation: after the spawn the coordinator does not
\* leave its loop, and run does not return, while the child is running; a
\* child that neither exits nor writes keeps run in the loop.
C16_NoCancellation ==
    /\ LoopEnded => proc.state = "exited"
    /\ Returned => proc.state = "exited"

\* the child has written nothing and is running, both receives have expired,
\* and the coordinator is back at the head of its loop
C16_Witness ==
    /\ pc = "run_loop"
    /\ proc.state = "running"
    /\ \A s \in Streams : proc.wrote[s] = 0
    /\ stdout_done /\ stderr_done /\ ~process_done
    /\ written = <<>>

\* the lines of a console that came from stream s, in console order
RECURSIVE OfStream(_, _)
OfStream(console, s) ==
    IF console = <<>> THEN <<>>
    ELSE (IF \E i \in DOMAIN Script(s) : Head(console) = StreamLine(s, i)
          THEN <<Head(console)>> ELSE <<>>) \o OfStream(Tail(console), s)

IsPrefix(a, b) == Len(a) <= Len(b) /\ a = SubSeq(b, 1, Len(a))

\* C17: for stdout and for stderr separately, the lines of the stream appear
\* on the sink in the order the child wrote them, without gaps: the sink
\* restricted to one stream is a prefix of that stream; only the order between
\* the two streams varies.
C17_InStreamOrder ==
    \A s \in Streams : IsPrefix(OfStream(written, s), Script(s))

\* both streams shown in full, a stderr line first and stdout lines around
\* another stderr line
C17_Witness ==
    /\ Returned
    /\ written = << "e1", "o1", "e2", "o2" >>

\* C18: a run that spawned the process has exactly two reader threads, one per
\* stream, and when run returns both closures have ended and both threads have
\* been joined.
C18_TwoReadersJoined ==
    /\ threads = 2
    /\ DOMAIN reader = Streams
    /\ Returned => (joined = Streams /\ \A s \in Streams : reader[s] # Reading)

\* run returned an error for a nonzero exit with both readers joined, one of
\* them after lines it forwarded too late to be shown
C18_Witness ==
    /\ Returned
    /\ ~runResult.ok
    /\ joined = Streams
    /\ rx["stdout"] # <<>>

\* a step of the reader thread of stream s: it takes a line out of its pipe
\* or its closure returns
ReaderStep(s) ==
    \/ reader'[s] # reader[s]
    \/ pipe[s] # <<>> /\ pipe'[s] = Tail(pipe[s])

\* C19: only the coordinating thread writes to the sink or changes what run
\* shares with the shell; a reader thread takes lines from its own pipe only
\* and passes each on as one message on its own channel, changing nothing
\* else; each pipe loses lines only to its own reader.
C19_SingleWriter ==
    [][/\ (written' # written) =>
              /\ pc \in {"recv_stdout", "recv_stderr"}
              /\ pc' # pc
              /\ \A s \in Streams : ~ReaderStep(s)
       /\ \A s \in Streams :
              ReaderStep(s) =>
                  /\ UNCHANGED <<written, sys, pc, stdout_done, stderr_done, process_done,
                                 joined, runResult, proc>>
                  /\ UNCHANGED RunFrame
                  /\ \A t \in Streams \ {s} :
                        pipe'[t] = pipe[t] /\ rx'[t] = rx[t] /\ reader'[t] = reader[t]
                  /\ \/ rx'[s] = rx[s]
                     \/ /\ pipe[s] # <<>>
                        /\ rx'[s] = Append(rx[s], OkPacket(Head(pipe[s])))
       /\ \A s \in Streams :
              (Len(pipe'[s]) < Len(pipe[s])) => (reader[s] = Reading /\ ReaderStep(s))
      ]_vars

\* a line forwarded by the stderr reader is in its channel while the line the
\* stdout reader forwarded has been shown by the coordinator
C19_Witness ==
    /\ rx["stderr"] = << OkPacket("e1") >>
    /\ written = << "o1" >>
    /\ pc = "recv_stderr"

\* the reader of stream s has ended on a line it could not decode
DecodeFailed(s) == reader[s] # Reading /\ reader[s] # Ok

\* C20: when a reader thread fails to decode a line of stdout (resp. stderr),
\* run returns FailedToParseStdout (resp. FailedToParseStderr) to its caller,
\* not a result drawn from the exit status alone.
C20_DecodeFailureReported ==
    (Returned /\ \E s \in Streams : DecodeFailed(s))
        => /\ ~runResult.ok
           /\ \E s \in Streams : DecodeFailed(s) /\ runResult = reader[s]

(***************************************************************************)
(* SpecRunLive: the run under fair scheduling.  The child, each reader     *)
(* thread and the coordinator each keep taking their steps; the operating  *)
(* system answers try_wait.                                                *)
(***************************************************************************)
Coordinator ==
    \/ CoordLoop
    \/ CoordRecvStdout
    \/ CoordRecvStderr
    \/ CoordTryWait
    \/ CoordJoinStdout
    \/ CoordJoinStderr
    \/ CoordWait

NextRunLive ==
    \/ \E s \in Streams : ChildWrite(s)
    \/ ChildExit
    \/ \E s \in Streams : ReaderLine(s)
    \/ \E s \in Streams : ReaderEof(s)
    \/ Coordinator

SpecRunLive ==
    /\ InitRun
    /\ [][NextRunLive]_vars
    /\ WF_vars(Coordinator)
    /\ \A s \in Streams : WF_vars(ReaderLine(s)) /\ WF_vars(ReaderEof(s))

C29_FinalDrainPass ==
    [][/\ (~process_done /\ process_done') =>
              (pc = "try_wait" /\ pc' = "run_loop" /\ ~stdout_done' /\ ~stderr_done')
       /\ process_done => (process_done' /\ pc' # "try_wait")
       /\ (process_done /\ ~stdout_done /\ stdout_done') =>
              (pc = "recv_stdout" /\ rx["stdout"] = <<>>)
       /\ (process_done /\ ~stderr_done /\ stderr_done') =>
              (pc = "recv_stderr" /\ rx["stderr"] = <<>>)
       /\ (process_done /\ ~LoopEnded /\ LoopEnded') =>
              (pc = "run_loop" /\ stdout_done /\ stderr_done)
      ]_vars

\* the final pass under way: the exit has been seen, the receive on stdout
\* that follows it has shown the child's line, and the receive on stderr of
\* the same pass is next
C29_Witness ==
    /\ process_done
    /\ pc = "recv_stderr"
    /\ ~stdout_done /\ ~stderr_done
    /\ written = << "o1" >>
    /\ child.out = << "o1" >>

\* C30: every iteration of the coordinator attempts one receive on stdout and
\* then one on stderr and shows at most one line per attempt, always the head
\* of the channel: a line queued on a channel when an iteration starts is
\* shown after at most one line of the other stream, however many lines the
\* other stream has queued.
C30_NoStarvation ==
    [][/\ (pc = "run_loop" /\ pc' # pc) => pc' \in {"recv_stdout", "join_stdout"}
       /\ (pc = "recv_stdout" /\ pc' # pc) =>
              /\ pc' = "recv_stderr"
              /\ written' = IF rx["stdout"] # <<>>
                            THEN Append(written, Head(rx["stdout"]).line) ELSE written
       /\ (pc = "recv_stderr" /\ pc' # pc) =>
              /\ pc' \in {"try_wait", "run_loop"}
              /\ written' = IF rx["stderr"] # <<>>
                            THEN Append(written, Head(rx["stderr"]).line) ELSE written
       /\ (pc = "try_wait" /\ pc' # pc) => pc' \in {"run_loop", "join_stdout"}
       /\ (written' # written) => (pc \in {"recv_stdout", "recv_stderr"} /\ pc' # pc)
      ]_vars

\* the stderr line was shown after one stdout line while another stdout line
\* was still queued
C30_Witness ==
    /\ written = << "o1", "e1" >>
    /\ rx["stdout"] = << OkPacket("o2") >>
    /\ pc \in {"try_wait", "run_loop"}

\* the layout the rendering contract gives for an error of either layer
SharedLayout(e) ==
    << "[ERROR]:",
       "    [CATEGORY]: " \o e.kind.category,
       "    [MESSAGE]: " \o Message(e.kind),
       "[CONTEXT]:",
       "    [COMMAND]: " \o e.command_name,
       "    [ARGUMENTS]: " \o JoinArgs(e.command_args) >>

\* what handle_error has shown after the unknown-command hint, if any
ShownDump ==
    IF command_name_if_unknown(evalResult) # <<>> THEN Tail(written) ELSE written

\* C26: with show_errors enabled, the dump handle_error shows for an error of
\* either layer is the line "[ERROR]:", the category and message lines
\* indented by four spaces, the line "[CONTEXT]:", and the command and
\* arguments lines indented by four spaces, in that order and nothing else.
C26_SameLayout ==
    (pc = "handled" /\ ~evalResult.ok /\ show_errors) =>
        ShownDump = SharedLayout(evalResult)

\* the same for errors of the dispatch layer alone
C26_EvalLayout ==
    (pc = "handled" /\ ~evalResult.ok /\ show_errors /\ evalResult.layer = "Eval") =>
        ShownDump = SharedLayout(evalResult)

(***************************************************************************)
(* SpecShell: the shell with its sixteen builtins, its working directory,  *)
(* configuration, PATH and history                                         *)
(*                                                                         *)
(* Every line holds one command.  The steps of dispatch and of             *)
(* Executable::run are those of Spec; the builtins act on the shell state  *)
(* and on a filesystem with directories.  Paths typed as arguments are     *)
(* absolute and free of links.                                             *)
(***************************************************************************)
MaxPrompts == 2       \* SpecShell: lines read at the prompt

\* the filesystem at startup: three directories, the programs of Spec (the
\* one in /bin without execute permission), a text file, and a name not in use
ShellFs ==
    [p \in Dirs \cup Files \cup {Join("/home", "notes"), Join("/home", "new")} |->
        CASE p \in Dirs -> << DirMode >>
          [] p = Join("/bin", "prog") -> << 33188 >>
          [] p \in Files \ {Join("/bin", "prog")} -> << 33261 >>
          [] p = Join("/home", "notes") -> << FileMode >>
          [] OTHER -> <<>>]

\* the commands typed: every builtin with too few, the right number of and
\* too many arguments, with paths that exist and paths that do not, and
\* external programs
ShellPairs ==
    { <<"test", <<>>>>, <<"t", <<"a">>>>,
      <<"exit", <<>>>>, <<"q", <<"a">>>>,
      <<"pwd", <<>>>>, <<"pwd", <<"a">>>>,
      <<"cd", <<>>>>, <<"cd", <<"/usr/bin">>>>, <<"cd", <<"/nowhere">>>>,
      <<"cd", <<"/usr/bin", "a">>>>,
      <<"ls", <<>>>>, <<"ls", <<"/home">>>>, <<"ls", <<"/home/notes">>>>,
      <<"back", <<>>>>, <<"back", <<"a">>>>,
      <<"forward", <<>>>>, <<"forward", <<"a">>>>,
      <<"clear", <<>>>>, <<"clear", <<"a">>>>,
      <<"touch", <<>>>>, <<"touch", <<"/home/new">>>>, <<"touch", <<"/nowhere/new">>>>,
      <<"mkdir", <<>>>>, <<"mkdir", <<"/home/new">>>>, <<"mkdir", <<"/home/notes">>>>,
      <<"rm", <<"/home/notes">>>>, <<"rm", <<"/home">>>>, <<"rm", <<"/home/notes", "a">>>>,
      <<"cat", <<>>>>, <<"cat", <<"/home/notes">>>>, <<"cat", <<"/home">>>>,
      <<"cat", <<"/usr/bin/prog">>>>, <<"cat", <<"/nowhere">>>>,
      <<"run", <<>>>>, <<"run", <<"/usr/bin/prog">>>>, <<"run", <<"/usr/bin/prog", "a", "b">>>>,
      <<"run", <<"/nowhere">>>>,
      <<"config", <<"show-errors", "false">>>>, <<"config", <<"show-errors", "true">>>>,
      <<"config", <<"show-errors", "3">>>>, <<"config", <<"truncation", "3">>>>,
      <<"config", <<"truncation", "false">>>>, <<"config", <<"truncation", "x">>>>,
      <<"config", <<"history-limit", "0">>>>, <<"config", <<"history-limit", "x">>>>,
      <<"config", <<"bogus", "3">>>>, <<"config", <<"truncation">>>>,
      <<"env", <<>>>>, <<"env", <<"path">>>>, <<"env", <<"CWD">>>>, <<"env", <<"USER">>>>,
      <<"env", <<"bogus">>>>,
      <<"path", <<"append">>>>, <<"path", <<"append", "/home">>>>,
      <<"path", <<"prepend", "/home">>>>, <<"path", <<"insert", "/home">>>>,
      <<"path", <<"append", "/nowhere">>>>,
      <<"prog", <<"a", "b">>>>, <<"ghost", <<"a", "b">>>> }

\* the shell after Shell::new with the default configuration
InitShell ==
    /\ commands = <<>>
    /\ rname = ""
    /\ rfound = 0
    /\ pc = "startup"
    /\ PATH = << "/usr/bin", "/bin" >>
    /\ show_errors = TRUE
    /\ success = TRUE
    /\ fs = ShellFs
    /\ line = <<>>
    /\ idx = 0
    /\ results = <<>>
    /\ cand = ""
    /\ child = <<>>
    /\ dispatched = <<>>
    /\ threads = 0
    /\ sys = <<>>
    /\ written = <<>>
    /\ evalResult = <<>>
    /\ RunIdle
    /\ ConsoleIdle
    /\ PathIdle
    /\ CWD = HOME
    /\ backward = <<>>
    /\ forward = <<>>
    /\ truncation_factor = <<>>
    /\ history_limit = <<>>
    /\ history = <<>>

\* console.read_line returns a line of one command and eval parses it
ReadCommand ==
    /\ pc = "prompt"
    /\ Len(history) < MaxPrompts
    /\ \E pair \in ShellPairs : line' = << pair >>
    /\ idx' = 1
    /\ pc' = "eval"
    /\ UNCHANGED <<commands, rname, rfound, PATH, show_errors, success, fs, results,
                   cand, child, dispatched, threads, sys, written, evalResult>>
    /\ UNCHANGED runVars
    /\ UNCHANGED consoleVars
    /\ UNCHANGED pathVars
    /\ UNCHANGED shellVars

\* console.read_line fails (event::read or a draw call returns an error) and
\* the ? in main ends the process; or the user presses Ctrl-C and read_line
\* calls std::process::exit(0)
ReadLineEnds ==
    /\ pc = "prompt"
    /\ pc' \in {"io_failed", "interrupted"}
    /\ UNCHANGED <<commands, rname, rfound, PATH, show_errors, success, fs, line, idx,
                   results, cand, child, dispatched, threads, sys, written, evalResult>>
    /\ UNCHANGED runVars
    /\ UNCHANGED consoleVars
    /\ UNCHANGED pathVars
    /\ UNCHANGED shellVars

\* the environment: another process removes the file the PATH search or
\* run_executable has found, before its metadata is read or it is spawned
CandVanish ==
    /\ pc \in {"metadata", "spawn"}
    /\ Exists(cand)
    /\ fs' = [fs EXCEPT ![cand] = <<>>]
    /\ UNCHANGED <<commands, rname, rfound, pc, PATH, show_errors, success, line, idx,
                   results, cand, child, dispatched, threads, sys, written, evalResult>>
    /\ UNCHANGED runVars
    /\ UNCHANGED consoleVars
    /\ UNCHANGED pathVars
    /\ UNCHANGED shellVars

\* the end of the loop body: shell.history_add(line), and the next iteration
HistoryAdd ==
    /\ pc = "handled"
    /\ history' = Append(history, line)
    /\ line' = <<>>
    /\ idx' = 0
    /\ results' = <<>>
    /\ cand' = ""
    /\ child' = <<>>
    /\ dispatched' = <<>>
    /\ threads' = 0
    /\ sys' = <<>>
    /\ written' = <<>>
    /\ evalResult' = <<>>
    /\ pc' = "prompt"
    /\ UNCHANGED <<commands, rname, rfound, PATH, show_errors, success, fs>>
    /\ UNCHANGED runVars
    /\ UNCHANGED consoleVars
    /\ UNCHANGED pathVars
    /\ UNCHANGED <<CWD, backward, forward, truncation_factor, history_limit>>

NextShell ==
    \/ DefaultAdd
    \/ CandVanish
    \/ ReadCommand
    \/ ReadLineEnds
    \/ DispatchBuiltin
    \/ DispatchPath
    \/ DispatchMetadata
    \/ ExecSpawn
    \/ ExecDrain
    \/ EvalReturn
    \/ HandleError
    \/ HistoryAdd

SpecShell == InitShell /\ [][NextShell]_vars

\* the number of arguments a builtin expects; list-directory and
\* run-executable do not check the count
ExpectedArgs(true_name) ==
    CASE true_name \in {"test", "exit", "working-directory", "previous-directory",
                        "next-directory", "clear-terminal"} -> << 0 >>
      [] true_name \in {"change-directory", "make-file", "make-directory", "delete-file",
                        "read-file", "environment-variable"} -> << 1 >>
      [] true_name \in {"configure", "edit-path"} -> << 2 >>
      [] OTHER -> <<>>

\* the true name of the builtin the pair being dispatched resolves to
TrueName == commands[resolve(commands, line[idx][1])].true_name

\* the step is dispatch calling a builtin
BuiltinCall ==
    pc = "eval" /\ dispatched' # dispatched /\ IsBuiltin(line[idx][1])

\* C21: a builtin that expects E arguments and is called with N # E returns
\* InvalidArgumentCount(E, N) with exactly these counts and does none of its
\* action: it shows one usage line, the process goes on, and working
\* directory, directory history, PATH, configuration, filesystem, history and
\* success flag are as before.
C21_ArityChecked ==
    [][(/\ BuiltinCall
        /\ ExpectedArgs(TrueName) # <<>>
        /\ Len(line[idx][2]) # ExpectedArgs(TrueName)[1]) =>
          /\ pc' = "eval"
          /\ results' = Append(results,
                 CommandError(InvalidArgumentCount(ExpectedArgs(TrueName)[1],
                                                   Len(line[idx][2])),
                              "Builtin", TrueName, line[idx][2]))
          /\ Len(written') = 1
          /\ UNCHANGED <<CWD, backward, forward, PATH, show_errors, truncation_factor,
                         history_limit, fs, history, success, commands>>
      ]_vars

\* change-directory was called with an existing directory and one argument
\* too many: the error carries the counts 1 and 2, one usage line is shown
\* and the working directory is still the one of the start
C21_Witness ==
    /\ pc = "eval"
    /\ dispatched = << <<"cd", <<"/usr/bin", "a">>>> >>
    /\ results = << CommandError(InvalidArgumentCount(1, 2), "Builtin", "change-directory",
                                 <<"/usr/bin", "a">>) >>
    /\ written = << "Usage: change-directory <path>" >>
    /\ CWD = HOME

\* C22: no builtin panics or ends the shell because of its arguments: every
\* call of a builtin, whatever the argument list, returns Ok or a structured
\* error to dispatch.
C22_BuiltinsNeverAbort == pc # "panicked"

\* the process has ended
ProcessEnded == pc \in {"exited", "interrupted", "io_failed", "panicked"}

\* the part of C23 about errors: an error returned by eval is handled and
\* the loop goes on to the next prompt
C23_ErrorThenPrompt ==
    [][/\ (pc = "handle" /\ ~evalResult.ok) => pc' = "handled"
       /\ (pc = "handled" /\ ~evalResult.ok) => pc' = "prompt"
      ]_vars

\* C23: the top-level loop never ends on a command error: an error returned
\* by eval is handled and the next line is read, and the process ends only
\* through the exit command (or the exit key at the prompt) or through a
\* failure of the terminal I/O in read_line.
C23_LoopNeverEndsOnError ==
    [][/\ (pc = "handle" /\ ~evalResult.ok) => pc' = "handled"
       /\ (pc = "handled" /\ ~evalResult.ok) => pc' = "prompt"
       /\ (~ProcessEnded /\ ProcessEnded') =>
             \/ pc = "prompt" /\ pc' \in {"io_failed", "interrupted"}
             \/ pc = "eval" /\ pc' = "exited" /\ TrueName = "exit" /\ line[idx][2] = <<>>
      ]_vars

\* eval has returned Dispatch.UnknownCommand
IsUnknownCommand ==
    evalResult.layer = "Eval" /\ evalResult.kind.variant = "UnknownCommand"

\* C24: what handle_error shows for an error.  With show_errors disabled it
\* is exactly the line "Unknown command: name" for UnknownCommand(name) and
\* nothing for any other error; the structured dump is shown if and only if
\* show_errors is enabled.
C24_DisplayPolicy ==
    (pc = "handled" /\ ~evalResult.ok) =>
        /\ (~show_errors /\ IsUnknownCommand) =>
               written = << "Unknown command: " \o evalResult.kind.name >>
        /\ (~show_errors /\ ~IsUnknownCommand) => written = <<>>
        /\ show_errors <=>
               /\ Len(written) >= Len(Display(evalResult))
               /\ SubSeq(written, Len(written) - Len(Display(evalResult)) + 1, Len(written))
                     = Display(evalResult)

\* error display was switched off by configure and the next line named an
\* unknown command: the hint alone is shown
C24_Witness ==
    /\ pc = "handled"
    /\ ~show_errors
    /\ history = << << <<"config", <<"show-errors", "false">>>> >> >>
    /\ line = << <<"ghost", <<"a", "b">>>> >>
    /\ written = << "Unknown command: ghost" >>

\* the error is one of the dispatch layer, thrown for the pair given
DispatchErrorOf(e, pair) ==
    /\ e.kind.variant \in {"UnknownCommand", "NotAnExecutable", "FailedToReadMetadata"}
    /\ e.command_name = pair[1]
    /\ e.command_args = pair[2]

\* C25: an error produced by dispatch (UnknownCommand, NotAnExecutable,
\* FailedToReadMetadata) carries as context the command name and the
\* argument sequence dispatch was called with, in the same order, and
\* neither eval nor the top-level loop alters it: what eval returns and what
\* handle_error has been given is the value dispatch produced.
C25_ContextFixed ==
    /\ \A k \in 1..Len(results) :
          (~results[k].ok /\ results[k].layer = "Eval") =>
              DispatchErrorOf(results[k], dispatched[k])
    /\ (pc \in {"handle", "handled"} /\ ~evalResult.ok /\ evalResult.layer = "Eval") =>
          \E k \in 1..Len(results) :
              /\ evalResult = results[k]
              /\ DispatchErrorOf(evalResult, line[k])

\* the program in /usr/bin has vanished, the one found in /bin has no execute
\* permission: NotAnExecutable with the two arguments in the order typed has
\* come up to the top-level loop
C25_Witness ==
    /\ pc = "handled"
    /\ line = << <<"prog", <<"a", "b">>>> >>
    /\ evalResult = EvalError(NotAnExecutable(33188), "prog", <<"a", "b">>)

\* the step belongs to a call of Executable::run
RunStep == pc \in {"spawn", "running"} /\ pc' # pc

\* C27: Executable::run leaves the shell state alone: across every step of a
\* run, whether the spawn fails, the child exits with 0, with another code
\* or by a signal, the working directory, the directory history, the PATH,
\* the configuration and the history are unchanged.
C27_ExecutableIsolated ==
    [][RunStep => UNCHANGED <<CWD, backward, forward, PATH, show_errors,
                              truncation_factor, history_limit, history>>]_vars

\* after `cd /usr/bin` the program was run through run-executable and
\* failed: the shell is still in /usr/bin and the history holds the first
\* line alone
C27_Witness ==
    /\ pc = "eval"
    /\ history = << << <<"cd", <<"/usr/bin">>>> >> >>
    /\ CWD = "/usr/bin"
    /\ backward = << HOME >>
    /\ dispatched = << <<"run", <<"/usr/bin/prog", "a", "b">>>> >>
    /\ Len(results) = 1
    /\ ~results[1].ok
    /\ results[1].kind.variant = "FailedToExecute"

\* the argument vector the claim gives for the pair at position k of the line
ExpectedArgv(k) ==
    IF IsBuiltin(line[k][1]) /\ commands[resolve(commands, line[k][1])].true_name
                                    = "run-executable"
    THEN SubSeq(line[k][2], 2, Len(line[k][2]))
    ELSE line[k][2]

\* C28: the argument vector given to the spawned process is the command's
\* argument sequence in order, without the program path in it: the parsed
\* arguments as they are for a program found on the PATH, and the builtin's
\* arguments without the first one for run-executable.
C28_Argv ==
    \A i \in 1..Len(sys) :
        sys[i].op \in {"spawn", "spawn_failed"} =>
            /\ sys[i].args = ExpectedArgv(sys[i].k)
            /\ sys[i].path = cand
            /\ (sys[i].args = <<>> \/ sys[i].args[1] # cand)

\* run-executable was given the program and the arguments a, b: the process
\* was spawned with a, b
C28_Witness ==
    /\ pc = "running"
    /\ line = << <<"run", <<"/usr/bin/prog", "a", "b">>>> >>
    /\ cand = "/usr/bin/prog"
    /\ \E i \in 1..Len(sys) : sys[i].op = "spawn" /\ sys[i].args = <<"a", "b">>

\* C31: when the run returns, every line the child wrote to stdout and every
\* line it wrote to stderr has been shown, whatever the exit status and
\* whatever the schedule of the two readers and the coordinator.
C31_NoOutputLoss ==
    (Returned /\ AllDecodable(child.out) /\ AllDecodable(child.err)) =>
        /\ OfStream(written, "stdout") = child.out
        /\ OfStream(written, "stderr") = child.err

\* C32: the success flag read at the next prompt reflects the last command:
\* false after eval returned an error, true after eval returned Ok.
C32_SuccessReflectsLast ==
    [][(pc = "handled" /\ pc' = "prompt") => (success' = evalResult.ok)]_vars

\* C33: edit-path with the action "append" puts the resolved directory at the
\* end of PATH (searched last) and with "prepend" at the front (searched
\* first); any other action, or a directory that cannot be resolved, gives
\* InvalidArgument and leaves PATH unchanged.
C33_EditPath ==
    [][(BuiltinCall /\ TrueName = "edit-path" /\ Len(line[idx][2]) = 2) =>
          LET action == line[idx][2][1]
              path == resolve_path(line[idx][2][2])
          IN  CASE path = "" ->
                      /\ PATH' = PATH
                      /\ results' = Append(results,
                             exec_error(InvalidArgument(line[idx][2][2]), "edit-path",
                                        line[idx][2]))
                [] path # "" /\ action = "append" -> PATH' = Append(PATH, path)
                [] path # "" /\ action = "prepend" -> PATH' = << path >> \o PATH
                [] OTHER ->
                      /\ PATH' = PATH
                      /\ results' = Append(results,
                             exec_error(InvalidArgument(action), "edit-path", line[idx][2]))
      ]_vars

\* the configuration fields
ConfigFields == <<truncation_factor, history_limit, show_errors>>

\* the value a key of configure stands for: <<v>> when the text is valid for
\* the key, <<>> when it is not
ConfigValue(key, value) ==
    CASE key \in {"truncation", "history-limit"} ->
             IF value = "false" THEN << <<>> >>
             ELSE IF value \in {"0", "3"} THEN << parse_usize(value) >>
             ELSE <<>>
      [] key = "show-errors" ->
             IF value \in {"true", "false"} THEN << value = "true" >> ELSE <<>>
      [] OTHER -> <<>>

\* C34: configure either applies exactly one setting or changes nothing.
\* For truncation and history-limit "false" sets the field to none and a
\* non-negative integer n sets it to n; for show-errors "true"/"false" set the
\* flag; another key gives InvalidArgument(key), an unparsable value gives
\* InvalidValue(value), and in both cases every configuration field keeps its
\* value.
C34_Configure ==
    [][(BuiltinCall /\ TrueName = "configure" /\ Len(line[idx][2]) = 2) =>
          LET key == line[idx][2][1]
              value == line[idx][2][2]
              v == ConfigValue(key, value)
          IN  CASE key \notin {"truncation", "history-limit", "show-errors"} ->
                      /\ UNCHANGED ConfigFields
                      /\ results' = Append(results,
                             exec_error(InvalidArgument(key), "configure", line[idx][2]))
                [] key = "truncation" /\ v # <<>> ->
                      /\ truncation_factor' = v[1]
                      /\ UNCHANGED <<history_limit, show_errors>>
                      /\ results' = Append(results, Ok)
                [] key = "history-limit" /\ v # <<>> ->
                      /\ history_limit' = v[1]
                      /\ UNCHANGED <<truncation_factor, show_errors>>
                      /\ results' = Append(results, Ok)
                [] key = "show-errors" /\ v # <<>> ->
                      /\ show_errors' = v[1]
                      /\ UNCHANGED <<truncation_factor, history_limit>>
                      /\ results' = Append(results, Ok)
                [] OTHER ->
                      /\ UNCHANGED ConfigFields
                      /\ results' = Append(results,
                             exec_error(InvalidValue(value), "configure", line[idx][2]))
      ]_vars

\* the history limit was set to 0 by the first line and the second line gave
\* a value that is no number: InvalidValue, and the limit is still 0
C34_Witness ==
    /\ pc = "eval"
    /\ history = << << <<"config", <<"history-limit", "0">>>> >> >>
    /\ dispatched = << <<"config", <<"history-limit", "x">>>> >>
    /\ results = << exec_error(InvalidValue("x"), "configure", <<"history-limit", "x">>) >>
    /\ history_limit = << 0 >>
    /\ truncation_factor = <<>>
    /\ show_errors

\* the true name of the builtin a dispatched pair resolves to
TrueNameOf(pair) == commands[resolve(commands, pair[1])].true_name

\* the paths Executable::new can have been given for a dispatched pair: the
\* first argument of run-executable (an absolute path, which resolving left
\* as it was while the file existed), or the name found in a directory of PATH
ResolvedPaths(pair) ==
    IF IsBuiltin(pair[1])
    THEN (IF TrueNameOf(pair) = "run-executable" /\ pair[2] # <<>>
          THEN {pair[2][1]}
          ELSE {})
    ELSE {PATH[i] \o "/" \o pair[1] : i \in DOMAIN PATH}

\* C35: an error raised inside a builtin carries the command type Builtin,
\* the true name of the builtin also when it was called through an alias, and
\* the full argument list of the call; an error raised by Executable::run
\* carries the command type Executable and the resolved path as command name.
C35_ErrorContext ==
    \A k \in 1..Len(results) :
        (~results[k].ok /\ results[k].layer = "Exec") =>
            \/ /\ results[k].command_type = "Builtin"
               /\ IsBuiltin(dispatched[k][1])
               /\ results[k].command_name = TrueNameOf(dispatched[k])
               /\ results[k].command_args = dispatched[k][2]
            \/ /\ results[k].command_type = "Executable"
               /\ results[k].command_name \in ResolvedPaths(dispatched[k])

\* change-directory was called through its alias cd with a directory that
\* does not exist: the error names change-directory and the one argument
C35_Witness ==
    /\ pc = "eval"
    /\ dispatched = << <<"cd", <<"/nowhere">>>> >>
    /\ ~results[1].ok
    /\ results[1].command_type = "Builtin"
    /\ results[1].command_name = "change-directory"
    /\ results[1].command_args = <<"/nowhere">>

(***************************************************************************)
(* Strings: a String is its UTF-8 encoding, a sequence of bytes; a byte is *)
(* the pair of the character it belongs to and its position in the         *)
(* encoding of that character                                              *)
(***************************************************************************)
\* char::len_utf8 of the characters used: "U+00E9" stands for a character
\* whose encoding has two bytes
len_utf8(c) == IF c = "U+00E9" THEN 2 ELSE 1

\* the bytes of one character
encode_utf8(c) == [k \in 1..len_utf8(c) |-> <<c, k>>]

\* str::is_char_boundary: the start, the end, or the first byte of a character
is_char_boundary(s, index) ==
    \/ index = 0
    \/ index = Len(s)
    \/ index < Len(s) /\ s[index + 1][2] = 1

\* String::insert: <<string>> for the result, <<>> for the panic of
\* assert!(self.is_char_boundary(idx))
String_insert(s, index, c) ==
    IF is_char_boundary(s, index)
    THEN << SubSeq(s, 1, index) \o encode_utf8(c) \o SubSeq(s, index + 1, Len(s)) >>
    ELSE <<>>

\* String::remove: the character that starts at the index is removed with
\* all its bytes; <<>> for the panic when the index is no character boundary
\* or is the end of the string
String_remove(s, index) ==
    IF index < Len(s) /\ is_char_boundary(s, index)
    THEN << SubSeq(s, 1, index)
            \o SubSeq(s, index + len_utf8(s[index + 1][1]) + 1, Len(s)) >>
    ELSE <<>>

\* String::truncate: <<string>> for the result, <<>> for the panic of
\* assert!(self.is_char_boundary(new_len))
String_truncate(s, new_len) ==
    IF new_len > Len(s) THEN << s >>
    ELSE IF is_char_boundary(s, new_len) THEN << SubSeq(s, 1, new_len) >>
    ELSE <<>>

(***************************************************************************)
(* SpecEdit: Console::read_line, key event by key event                    *)
(***************************************************************************)
MaxKeys == 4     \* events one read_line call reads
MaxCalls == 2    \* calls of read_line

\* the characters KeyCode::Char can carry
KeyChars == {"a", "U+00E9"}

\* Console::new: an empty line buffer, the cursor at 0
InitEdit ==
    /\ commands = <<>>
    /\ rname = ""
    /\ rfound = 0
    /\ pc = "console"
    /\ ShellIdle
    /\ RunIdle
    /\ EnvIdle
    /\ ConsoleIdle
    /\ PathIdle

\* what no step of the line editor touches
EditFrame == <<commands, rname, rfound, PATH, show_errors, success, fs, line, idx,
               results, cand, child, dispatched, threads, sys, written, evalResult>>

\* faulty variant: the cursor moves right without the bound check
move_cursor_right_unchecked(buffer, index) == index + 1

\* move_cursor_right
move_cursor_right(buffer, index) == IF index < Len(buffer) THEN index + 1 ELSE index

\* move_cursor_left
move_cursor_left(index) == IF index > 0 THEN index - 1 ELSE index

\* faulty variant: Enter is accepted on an empty line buffer as well
EnterAcceptedAlways(buffer) == TRUE

\* the guard of the Enter arm of handle_event
EnterAccepted(buffer) == buffer # <<>>

\* the loop of read_line is about to read an event
ReadingEvent == pc = "read_line" /\ handled < MaxKeys

\* a step of the loop that has handled the event given
Handled(e) ==
    /\ event' = e
    /\ handled' = handled + 1
    /\ UNCHANGED <<calls, lineRead>>
    /\ UNCHANGED EditFrame
    /\ UNCHANGED runVars
    /\ UNCHANGED shellVars
    /\ UNCHANGED pathVars

\* read_line up to its loop: reset_line_buffer
ReadLineBegin ==
    /\ pc \in {"console", "returned"}
    /\ calls < MaxCalls
    /\ line_buffer' = <<>>
    /\ cursor_index' = 0
    /\ calls' = calls + 1
    /\ handled' = 0
    /\ event' = <<>>
    /\ lineRead' = <<>>
    /\ pc' = "read_line"
    /\ UNCHANGED EditFrame
    /\ UNCHANGED runVars
    /\ UNCHANGED shellVars
    /\ UNCHANGED pathVars

\* KeyCode::Char(c): insert_char
KeyChar ==
    /\ ReadingEvent
    /\ \E c \in KeyChars :
          /\ Handled(<<"Char", c>>)
          /\ IF String_insert(line_buffer, cursor_index, c) = <<>>
             THEN /\ pc' = "panicked"
                  /\ UNCHANGED <<line_buffer, cursor_index>>
             ELSE /\ line_buffer' = String_insert(line_buffer, cursor_index, c)[1]
                  /\ cursor_index' = move_cursor_right(line_buffer', cursor_index)
                  /\ pc' = pc

\* KeyCode::Backspace: remove_char(Backspace)
KeyBackspace ==
    /\ ReadingEvent
    /\ Handled(<<"Backspace">>)
    /\ IF cursor_index > 0
       THEN IF String_remove(line_buffer, cursor_index - 1) = <<>>
            THEN /\ pc' = "panicked"
                 /\ UNCHANGED <<line_buffer, cursor_index>>
            ELSE /\ line_buffer' = String_remove(line_buffer, cursor_index - 1)[1]
                 /\ cursor_index' = move_cursor_left(cursor_index)
                 /\ pc' = pc
       ELSE UNCHANGED <<line_buffer, cursor_index, pc>>

\* KeyCode::Delete: remove_char(Delete)
KeyDelete ==
    /\ ReadingEvent
    /\ Handled(<<"Delete">>)
    /\ IF cursor_index < Len(line_buffer)
       THEN IF String_remove(line_buffer, cursor_index) = <<>>
            THEN /\ pc' = "panicked"
                 /\ UNCHANGED <<line_buffer, cursor_index>>
            ELSE /\ line_buffer' = String_remove(line_buffer, cursor_index)[1]
                 /\ UNCHANGED <<cursor_index, pc>>
       ELSE UNCHANGED <<line_buffer, cursor_index, pc>>

\* KeyCode::Left
KeyLeft ==
    /\ ReadingEvent
    /\ Handled(<<"Left">>)
    /\ cursor_index' = move_cursor_left(cursor_index)
    /\ UNCHANGED <<line_buffer, pc>>

\* KeyCode::Right
KeyRight ==
    /\ ReadingEvent
    /\ Handled(<<"Right">>)
    /\ cursor_index' = move_cursor_right(line_buffer, cursor_index)
    /\ UNCHANGED <<line_buffer, pc>>

\* KeyCode::Enter: ReplAction::Return when the guard holds, and read_line
\* returns a copy of the line buffer and clears the buffer; ReplAction::Ignore
\* when it does not
KeyEnter ==
    /\ ReadingEvent
    /\ event' = <<"Enter">>
    /\ handled' = handled + 1
    /\ IF EnterAccepted(line_buffer)
       THEN /\ lineRead' = << line_buffer >>
            /\ line_buffer' = <<>>
            /\ pc' = "returned"
       ELSE UNCHANGED <<lineRead, line_buffer, pc>>
    /\ UNCHANGED <<cursor_index, calls>>
    /\ UNCHANGED EditFrame
    /\ UNCHANGED runVars
    /\ UNCHANGED shellVars
    /\ UNCHANGED pathVars

\* Ctrl-L: clear(ClearMode::OUTPUT), the line buffer is not part of it
KeyCtrlL ==
    /\ ReadingEvent
    /\ Handled(<<"Ctrl-L">>)
    /\ UNCHANGED <<line_buffer, cursor_index, pc>>

\* Ctrl-C: ReplAction::Exit, the process exits
KeyCtrlC ==
    /\ ReadingEvent
    /\ Handled(<<"Ctrl-C">>)
    /\ pc' = "exited"
    /\ UNCHANGED <<line_buffer, cursor_index>>

\* every other event: scrolling, the debug toggle, a resize, an ignored key
KeyOther ==
    /\ ReadingEvent
    /\ Handled(<<"Other">>)
    /\ UNCHANGED <<line_buffer, cursor_index, pc>>

\* event::read()? returns an error: read_line returns it
EventReadFails ==
    /\ ReadingEvent
    /\ pc' = "io_failed"
    /\ UNCHANGED <<line_buffer, cursor_index, event, handled, calls, lineRead>>
    /\ UNCHANGED EditFrame
    /\ UNCHANGED runVars
    /\ UNCHANGED shellVars
    /\ UNCHANGED pathVars

NextEdit ==
    \/ ReadLineBegin
    \/ KeyChar
    \/ KeyBackspace
    \/ KeyDelete
    \/ KeyLeft
    \/ KeyRight
    \/ KeyEnter
    \/ KeyCtrlL
    \/ KeyCtrlC
    \/ KeyOther
    \/ EventReadFails

SpecEdit == InitEdit /\ [][NextEdit]_vars

\* the cursor is inside the line buffer or at its end
CursorInBuffer(buffer, index) == 0 <= index /\ index <= Len(buffer)

\* the step handles the event given inside read_line
Handles(e) == pc = "read_line" /\ event' = e /\ handled' = handled + 1

\* C36: line-editor invariant.  Whenever an event is handled within one
\* read_line call, 0 <= cursor_index <= length of the line buffer (the length
\* the editor compares with, line_buffer.len()), before and after the event;
\* Backspace at index 0, Delete at the end, Left at 0 and Right at the end
\* leave buffer and cursor unchanged.
C36_EditorInvariant ==
    [][/\ pc = "read_line" => CursorInBuffer(line_buffer, cursor_index)
       /\ pc' = "read_line" => CursorInBuffer(line_buffer', cursor_index')
       /\ (Handles(<<"Backspace">>) /\ cursor_index = 0) =>
             UNCHANGED <<line_buffer, cursor_index>>
       /\ (Handles(<<"Delete">>) /\ cursor_index = Len(line_buffer)) =>
             UNCHANGED <<line_buffer, cursor_index>>
       /\ (Handles(<<"Left">>) /\ cursor_index = 0) =>
             UNCHANGED <<line_buffer, cursor_index>>
       /\ (Handles(<<"Right">>) /\ cursor_index = Len(line_buffer)) =>
             UNCHANGED <<line_buffer, cursor_index>>
      ]_vars

\* two characters were typed, the cursor went left once and right twice: the
\* second Right found the cursor at the end and left it there
C36_Witness ==
    /\ pc = "read_line"
    /\ line_buffer = encode_utf8("a") \o encode_utf8("a")
    /\ cursor_index = 2
    /\ event = <<"Right">>
    /\ handled = 4

\* C37: inserting a character leaves the cursor immediately after the
\* inserted character, also for a character whose encoding is longer than one
\* byte, so that any further insert or remove at the cursor acts on a whole
\* character and never fails.
C37_InsertAdvancesPastChar ==
    [][/\ \A c \in KeyChars :
             (Handles(<<"Char", c>>) /\ is_char_boundary(line_buffer, cursor_index)) =>
                 /\ cursor_index' = cursor_index + len_utf8(c)
                 /\ is_char_boundary(line_buffer', cursor_index')
       /\ pc = "read_line" => pc' # "panicked"
      ]_vars

\* the Enter key is handled
EnterHandled == Handles(<<"Enter">>)

\* C38: read_line never returns an empty line.  Enter is accepted only when
\* the line buffer is non-empty and is otherwise ignored, the returned string
\* is the buffer content at the moment of Enter, and each call starts from
\* an empty buffer with the cursor at index 0.
C38_ReadLine ==
    [][/\ (EnterHandled /\ line_buffer = <<>>) =>
             /\ pc' = "read_line"
             /\ lineRead' = <<>>
             /\ UNCHANGED <<line_buffer, cursor_index>>
       /\ (EnterHandled /\ line_buffer # <<>>) =>
             /\ pc' = "returned"
             /\ lineRead' = << line_buffer >>
       /\ pc' = "returned" => (lineRead' # <<>> /\ lineRead'[1] # <<>>)
       /\ (pc # "returned" /\ pc' # "returned") => lineRead' = <<>>
       /\ (pc # "read_line" /\ pc' = "read_line") =>
             (line_buffer' = <<>> /\ cursor_index' = 0)
      ]_vars

\* the first call returned the line "a" with the cursor at 1, and the second
\* call has started with an empty buffer, the cursor at 0, and has ignored an
\* Enter key
C38_Witness ==
    /\ pc = "read_line"
    /\ calls = 2
    /\ event = <<"Enter">>
    /\ handled = 1
    /\ line_buffer = <<>>
    /\ cursor_index = 0
    /\ lineRead = <<>>

(***************************************************************************)
(* SpecPath: one Path value under set_path, set_truncation and             *)
(* disable_truncation                                                      *)
(***************************************************************************)
MaxDepth == 2    \* components of an absolute path
MaxFactor == 2   \* truncation factors 0..MaxFactor

\* the String of a sequence of characters
RECURSIVE StringOf(_)
StringOf(chars) ==
    IF chars = <<>> THEN <<>> ELSE encode_utf8(Head(chars)) \o StringOf(Tail(chars))

\* the byte '/'
SlashByte == <<"/", 1>>

\* directory names: one character, two characters, and a name that begins
\* with a two-byte character
DirNames == {StringOf(<<"h">>), StringOf(<<"a", "b">>), StringOf(<<"U+00E9", "a">>)}

\* a PathBuf is the sequence of its components below the root
AbsolutePaths == SeqsUpTo(DirNames, MaxDepth)
HomeDirectories == { << StringOf(<<"h">>) >>, << StringOf(<<"h">>), StringOf(<<"a", "b">>) >> }

\* [String]::join("/")
RECURSIVE join(_)
join(dirs) ==
    IF dirs = <<>> THEN <<>>
    ELSE IF Len(dirs) = 1 THEN dirs[1]
    ELSE dirs[1] \o << SlashByte >> \o join(Tail(dirs))

\* str::split("/")
RECURSIVE split(_)
split(s) ==
    IF \E i \in DOMAIN s : s[i] = SlashByte
    THEN LET i == Min({j \in DOMAIN s : s[j] = SlashByte})
         IN  << SubSeq(s, 1, i - 1) >> \o split(SubSeq(s, i + 1, Len(s)))
    ELSE << s >>

\* PathBuf::to_string_lossy of an absolute path
to_string_lossy(absolute_path) == << SlashByte >> \o join(absolute_path)

\* Path::strip_prefix, component by component: <<rest>> for Ok, <<>> for Err
strip_prefix(absolute_path, base) ==
    IF Len(base) <= Len(absolute_path) /\ SubSeq(absolute_path, 1, Len(base)) = base
    THEN << SubSeq(absolute_path, Len(base) + 1, Len(absolute_path)) >>
    ELSE <<>>

\* update_shortened_path, first half: the home directory collapsed to '~'
collapsed(p) ==
    IF strip_prefix(p.absolute_path, p.home_directory) # <<>>
    THEN (IF join(strip_prefix(p.absolute_path, p.home_directory)[1]) = <<>>
          THEN StringOf(<<"~">>)
          ELSE StringOf(<<"~", "/">>)
               \o join(strip_prefix(p.absolute_path, p.home_directory)[1]))
    ELSE to_string_lossy(p.absolute_path)

\* faulty variant: a directory name is cut only when it is longer than the
\* factor by more than one byte
truncated_dir_late(dir, factor) ==
    IF Len(dir) > factor + 1 THEN String_truncate(dir, factor) ELSE << dir >>

\* update_shortened_path, the body of the loop: <<name>>, or <<>> when
\* truncate panics
truncated_dir(dir, factor) ==
    IF Len(dir) > factor THEN String_truncate(dir, factor) ELSE << dir >>

\* update_shortened_path, second half: <<directories>>, or <<>> when truncate
\* panics for one of them
truncated_directories(directories, truncation_factor_) ==
    IF truncation_factor_ = <<>> THEN << directories >>
    ELSE IF \E i \in DOMAIN directories :
                truncated_dir(directories[i], truncation_factor_[1]) = <<>>
    THEN <<>>
    ELSE << [i \in DOMAIN directories |->
                truncated_dir(directories[i], truncation_factor_[1])[1]] >>

\* update_shortened_path: <<Path>> with the new shortened path, or <<>> when
\* it panics
update_shortened_path(p) ==
    IF truncated_directories(split(collapsed(p)), p.truncation_factor) = <<>>
    THEN <<>>
    ELSE << [p EXCEPT !.shortened_path =
                join(truncated_directories(split(collapsed(p)), p.truncation_factor)[1])] >>

\* Path::new
Path_new(absolute_path, home_directory) ==
    update_shortened_path([absolute_path |-> absolute_path,
                           home_directory |-> home_directory,
                           shortened_path |-> <<>>,
                           truncation_factor |-> <<>>])[1]

InitPath ==
    /\ commands = <<>>
    /\ rname = ""
    /\ rfound = 0
    /\ pc = "path"
    /\ ShellIdle
    /\ RunIdle
    /\ EnvIdle
    /\ ConsoleIdle
    /\ thePath \in {Path_new(a, h) : a \in AbsolutePaths, h \in HomeDirectories}
    /\ untruncated = << thePath.shortened_path >>
    /\ called = << "new" >>

\* what no method of Path touches
PathFrame == <<commands, rname, rfound, PATH, show_errors, success, fs, line, idx,
               results, cand, child, dispatched, threads, sys, written, evalResult>>

\* a method has set the fields as given and calls update_shortened_path
Updated(p) ==
    /\ IF update_shortened_path(p) = <<>>
       THEN /\ thePath' = p
            /\ pc' = "panicked"
       ELSE /\ thePath' = update_shortened_path(p)[1]
            /\ pc' = pc
    /\ UNCHANGED PathFrame
    /\ UNCHANGED runVars
    /\ UNCHANGED shellVars
    /\ UNCHANGED consoleVars

\* Path::set_truncation
SetTruncation ==
    /\ pc = "path"
    /\ \E factor \in 0..MaxFactor :
          /\ called' = << "set_truncation", factor >>
          /\ Updated([thePath EXCEPT !.truncation_factor = << factor >>])
    /\ untruncated' = IF thePath.truncation_factor = <<>>
                      THEN << thePath.shortened_path >>
                      ELSE untruncated

\* Path::disable_truncation
DisableTruncation ==
    /\ pc = "path"
    /\ called' = << "disable_truncation", called[1] >>
    /\ Updated([thePath EXCEPT !.truncation_factor = <<>>])
    /\ untruncated' = << thePath'.shortened_path >>

\* Path::set_path with a path that resolves
SetPath ==
    /\ pc = "path"
    /\ \E new_absolute_path \in AbsolutePaths :
          /\ new_absolute_path # thePath.absolute_path
          /\ called' = << "set_path" >>
          /\ Updated([thePath EXCEPT !.absolute_path = new_absolute_path])
    /\ untruncated' = IF thePath.truncation_factor = <<>>
                      THEN << thePath'.shortened_path >>
                      ELSE <<>>

\* Path::set_path with a path that does not resolve: UnknownDirectory
SetPathFails ==
    /\ pc = "path"
    /\ called' = << "set_path_failed" >>
    /\ UNCHANGED <<thePath, untruncated, pc>>
    /\ UNCHANGED PathFrame
    /\ UNCHANGED runVars
    /\ UNCHANGED shellVars
    /\ UNCHANGED consoleVars

NextPath == SetTruncation \/ DisableTruncation \/ SetPath \/ SetPathFails

SpecPath == InitPath /\ [][NextPath]_vars

\* the Path is under its home directory
UnderHome == strip_prefix(thePath.absolute_path, thePath.home_directory) # <<>>

\* C39: the shortened form of a path always has the home directory
\* collapsed: for every absolute path under the home directory and every
\* truncation setting (none or any factor, including 0), the shortened path
\* begins with '~'.
C39_HomeCollapsed ==
    (pc = "path" /\ UnderHome) =>
        /\ thePath.shortened_path # <<>>
        /\ Head(thePath.shortened_path) = <<"~", 1>>

\* the number of characters of a String
chars_count(s) == Cardinality({i \in DOMAIN s : s[i][2] = 1})

\* C40: path truncation is reversible and bounded.  After set_truncation(f)
\* every '/'-separated component of the shortened path has at most f
\* characters and the absolute path is unchanged, and a following
\* disable_truncation restores exactly the shortened path that was present
\* before truncation was set.
C40_Truncation ==
    [][/\ (pc = "path" /\ pc' = "path" /\ called'[1] = "set_truncation") =>
             /\ \A i \in DOMAIN split(thePath'.shortened_path) :
                   chars_count(split(thePath'.shortened_path)[i]) <= called'[2]
             /\ thePath'.absolute_path = thePath.absolute_path
       /\ (pc = "path" /\ untruncated # <<>>
              /\ called' = << "disable_truncation", "set_truncation" >>) =>
             /\ thePath'.shortened_path = untruncated[1]
             /\ thePath'.absolute_path = thePath.absolute_path
      ]_vars

\* the path /h/ab under the home /h was shortened to ~/ab, cut to ~/a by
\* set_truncation(1), and disable_truncation has brought ~/ab back
C40_Witness ==
    /\ pc = "path"
    /\ called = << "disable_truncation", "set_truncation" >>
    /\ untruncated = << StringOf(<<"~", "/", "a", "b">>) >>
    /\ thePath.home_directory = << StringOf(<<"h">>) >>
    /\ thePath.absolute_path = << StringOf(<<"h">>), StringOf(<<"a", "b">>) >>
    /\ thePath.shortened_path = StringOf(<<"~", "/", "a", "b">>)
    /\ thePath.truncation_factor = <<>>

====
